---------------------------- MODULE Spec2Model ----------------------------
(***************************************************************************)
(* traefik-officer-operator: the log-source multiplexer (Kubernetes pod    *)
(* streams and the tailed file), the processing loop that drains the line  *)
(* channel, and the UrlPerformance reconciler with its configuration      *)
(* store.                                                                  *)
(*                                                                         *)
(* Time is counted in seconds and advances one ticker period at a time; a  *)
(* time stamp is kept as its age (seconds since it was taken), saturating  *)
(* at podDiscoveryTimeout, beyond which the code no longer distinguishes.  *)
(***************************************************************************)
EXTENDS Integers, Sequences, FiniteSets, TLC

\* ------------------------------------------------------------------ bounds
\* Pods that may match the label selector (pod names; 0 names the file).
NumPods == 2
\* Lines written during a run, by all pods together or by the tailed file.
MaxLines == 2
\* Changes of phase or readiness during a run with one pod; one fewer for
\* each further pod (ChangeBudget).
MaxPodChanges == 2
\* Streamer goroutines that may be alive at once.
MaxStreams == 2
\* Capacity of the Kubernetes source's line channel, scaled down from 1000.
K8sLinesCap == 1
\* Capacity of the file source's line channel, scaled down from 100.
FileLinesCap == 1
\* UrlPerformance objects.
NumObjects == 2
\* Creations, updates and deletions of objects and targets during a run.
MaxEdits == 4
\* Reconcile calls during a run.
MaxClock == 4
\* Lines the operator-mode processor takes during a run.
MaxGateLines == 2
\* UpdateConfig calls during a run of the store.
MaxStoreUpdates == 2
\* Records applied to the endpoint statistics during a run.
MaxRecords == 4
\* updateTopPaths calls during a run.
MaxRecomputes == 2
\* The largest TopNPaths a run is configured with, scaled down from 20.
MaxTopN == 2
\* Lines the loop of ProcessLogs receives in the whole-program model.
MaxMainLines == 2
\* Requests to /health.
MaxHealthRequests == 2
\* Minutes the model lets pass since the last processed line.
MaxSince == 7

\* --------------------------------------------------------------- constants
syncInterval == 10
maxRetries == 10
initialBackoff == 1
maxBackoff == 60
DefaultTopNPaths == 20
podDiscoveryTimeout == 15

Pods == 1..NumPods
FileSrc == 0
StreamIds == 1..MaxStreams
Callers == {"main", "watcher"}

VARIABLES
  mode,         \* "k8s" | "file": the log source main created; "operator": the controller
  replicas,     \* cluster: pods 1..replicas carry the selector's labels
  podPhase,     \* cluster: pod -> "absent" | "notready" | "ready"
  podChanges,   \* cluster: phase and readiness changes so far
  podLog,       \* cluster: pod -> number of lines its container has written
  podStreams,   \* kls.podStreams: pod -> stream id, 0 when the pod has no entry
  streams,      \* streamer goroutines: id -> [pod, pc, cancelled, pos]
  podMutex,     \* kls.podMutex: "free" | "close" (only Close holds it while blocked)
  lastPodSync,  \* kls.lastPodSync: [zero, age]
  ticker,       \* watchPods' ticker: a tick waits in ticker.C
  stopCh,       \* kls.stopCh is closed
  wg,           \* kls.wg counter
  sync,         \* syncPods activations: caller -> [pc, listed, todo]
  closePc,      \* Close(): "idle" | "lock" | "wait" | "returned"
  lines,        \* the output channel's buffer
  sendq,        \* the output channel's queue of blocked senders (FileSrc: the tailer)
  linesClosed,  \* the output channel is closed
  consumer,     \* ProcessLogs: "running" | "stopped"
  processed,    \* records ProcessLogs handed on to the metrics step
  lastProcessedTime, \* health: a logical clock, the number of updates since start
  lastSent,     \* source -> number of the line it put on the channel last
  tail,         \* file mode: [pc, hand, count, stopped, errs]; errs: the reads that failed
  objects,      \* API server: UrlPerformance name -> [exists, generation, spec, status]
  targets,      \* API server: the kinds of which the target resource exists
  configs,      \* ConfigManager.configs: key -> RuntimeConfig, NoConfig when absent
  queue,        \* controller work queue: names with an event to reconcile
  edits,        \* API server: creations, updates and deletions so far
  clock,        \* operator: the time metav1.Now() and time.Now() return
  cmMu,         \* ConfigManager.mu: [writer: held for writing, readers: read holds]
  updater,      \* the goroutine in UpdateConfig: [pc, config, old]
  proc,         \* the goroutine in ProcessLogs, operator mode: [pc, n, key, kind, path, got, allowed]
  stats,        \* request path -> lines handed to updateMetrics
  endpointStats,      \* key -> EndpointStat, NoStat when the map has no entry
  insertOrder,        \* the keys of endpointStats in the order they were added
  topNPaths,          \* the TopNPaths of the configuration LoadConfig read
  topPathsPerService, \* service -> keys of its top paths
  topPathsMutex,      \* TRUE while updateTopPaths holds the lock for writing
  topComplete,        \* the top paths the last finished updateTopPaths left
  avgLatencySeries,   \* keys with an endpoint_avg_latency_seconds series
  um,                 \* the goroutine in updateMetrics: [pc, rec, before]
  tp,                 \* the goroutine in updateTopPaths: [pc, n, paths, todo]
  mainPc,             \* main(): "start" | "updater" | "serve" | "source" | "failing" |
                      \*   "status" | "running" | "panicked" | "exited"
  mainLines,          \* main: lines the loop of ProcessLogs has received
  topTicker,          \* StartTopPathsUpdater's ticker: [state, pending]; state is
                      \*   "none" | "running" | "stopped", pending: a tick waits in ticker.C
  cleanerTicker,      \* startMetricsCleaner's ticker: "none" | "running"
  servePc,            \* the goroutine in ServeProm: "none" | "called" | "listening" | "failed"
  healthStatus,       \* healthStatus.Status
  sinceLastProcessed, \* time.Since(lastProcessedTime) in whole minutes
  response,           \* the last answer of HealthHandler: [code, status, log_processing]
  healthRequests,     \* GET /health requests answered so far
  coarseRequests,     \* increments of traefik_officer_requests_total so far
  parseIn,            \* the text handed to a parser: a router name or a log line
  parseOut,           \* what the parsers returned for it
  retry               \* a streamer in streamPodLogsWithRetry, on its own:
                      \*   [pc, attempts, Steps, Duration, delay]

vars == << mode, replicas, sendq, podPhase, podChanges, podLog, podStreams, streams, podMutex, lastPodSync,
           ticker, stopCh, wg, sync, closePc, lines, linesClosed, consumer,
           processed, lastProcessedTime, lastSent, tail,
           objects, targets, configs, queue, edits, clock,
           cmMu, updater, proc, stats,
           endpointStats, insertOrder, topNPaths, topPathsPerService, topPathsMutex,
           topComplete, avgLatencySeries, um, tp,
           mainPc, mainLines, topTicker, cleanerTicker, servePc, healthStatus,
           sinceLastProcessed, response, healthRequests, coarseRequests,
           parseIn, parseOut, retry >>

gateVars == << cmMu, updater, proc, stats >>

mxVars == << endpointStats, insertOrder, topNPaths, topPathsPerService, topPathsMutex,
            topComplete, avgLatencySeries, um, tp >>

mainVars == << mainPc, mainLines, topTicker, cleanerTicker, servePc, healthStatus,
              sinceLastProcessed, response, healthRequests, coarseRequests >>

parseVars == << parseIn, parseOut >>

retryVars == << retry >>

auxVars == << mxVars, mainVars, parseVars, retryVars >>

opVars == << objects, targets, configs, queue, edits, clock, gateVars, auxVars >>

plVars == << mode, replicas, sendq, podPhase, podChanges, podLog, podStreams, streams,
             podMutex, lastPodSync, ticker, stopCh, wg, sync, closePc, lines,
             linesClosed, consumer, processed, lastProcessedTime, lastSent, tail >>

k8sVars == << podPhase, podChanges, podLog, podStreams, streams, podMutex, lastPodSync,
              ticker, stopCh, wg, sync >>

\* ------------------------------------------------------------------ helpers
NoStream == [pod |-> 0, pc |-> "none", cancelled |-> FALSE, pos |-> 0]

ZeroTime == [zero |-> TRUE, age |-> podDiscoveryTimeout]
Now == [zero |-> FALSE, age |-> 0]

\* time.Since(kls.lastPodSync), saturated
Since(t) == IF t.zero THEN podDiscoveryTimeout ELSE t.age

Older(t) ==
  IF t.zero THEN t
  ELSE [t EXCEPT !.age = IF t.age + syncInterval >= podDiscoveryTimeout
                         THEN podDiscoveryTimeout ELSE t.age + syncInterval]

LinesCap == IF mode = "k8s" THEN K8sLinesCap ELSE FileLinesCap

LogLine(src, n, err) == [src |-> src, n |-> n, err |-> err]

Min(S) == CHOOSE x \in S : \A y \in S : x <= y

Live(s) == streams[s].pc \notin {"none", "done"}

Running == sync["main"].pc = "running"

\* A stream id no goroutine and no podStreams entry uses.
FreeIds == {s \in StreamIds : ~Live(s) /\ \A p \in Pods : podStreams[p] # s}

\* A channel that takes a line whatever its buffer holds.
CanSendAlways == TRUE

\* The channel's buffer has room for one more line.
CanSend == Len(lines) < LinesCap

\* `lines <- line` by sender id: the line enters the buffer, or, the buffer
\* being full, the sender joins the channel's queue of blocked senders.
Send(id, line) ==
  IF CanSend
  THEN /\ lines' = Append(lines, line)
       /\ lastSent' = [lastSent EXCEPT ![line.src] = line.n]
       /\ UNCHANGED sendq
  ELSE /\ sendq' = Append(sendq, id)
       /\ UNCHANGED << lines, lastSent >>

\* The pc of a sender after Send: it goes on, or it is blocked.
AfterSend(pc) == IF CanSend THEN pc ELSE "blocked"

\* The line the blocked sender id holds.
HandOf(id) ==
  IF id = FileSrc THEN tail.hand
  ELSE LogLine(streams[id].pod, streams[id].pos, FALSE)

\* A receive from the channel: the head of the buffer is taken and the first
\* blocked sender, if any, completes its send.
Receive ==
  /\ lines # << >>
  /\ IF sendq = << >>
     THEN /\ lines' = Tail(lines)
          /\ UNCHANGED << sendq, lastSent, streams, tail >>
     ELSE LET id == Head(sendq)
              line == HandOf(id)
          IN /\ lines' = Append(Tail(lines), line)
             /\ sendq' = Tail(sendq)
             /\ lastSent' = [lastSent EXCEPT ![line.src] = line.n]
             /\ IF id = FileSrc
                THEN /\ tail' = [tail EXCEPT !.pc = "recv"]
                     /\ UNCHANGED streams
                ELSE /\ streams' = [streams EXCEPT ![id].pc = "scan"]
                     /\ UNCHANGED tail

\* stream.cancelFunc() for every stream id in S
Cancel(st, S) ==
  [s \in StreamIds |-> IF s \in S THEN [st[s] EXCEPT !.cancelled = TRUE] ELSE st[s]]

\* Goroutines that have exited are gone once their entry is deleted.
Forget(st, S) ==
  [s \in StreamIds |-> IF s \in S /\ st[s].pc = "done" THEN NoStream ELSE st[s]]

\* ------------------------------------------------ operator: definitions
\* Namespace of the UrlPerformance objects and of their targets.
ObjNamespace == "apps"
TargetName == "web"
Kinds == {"Ingress", "IngressRoute"}
Objects == 1..NumObjects

\* regexp.Compile succeeds on pattern p
Compiles(p) == p # "["

DefaultSpec ==
  [enabled |-> TRUE, kind |-> "Ingress", tns |-> "", tname |-> TargetName,
   whitelist |-> << "^/api/" >>, ignored |-> << >>, urlPatterns |-> << >>]

\* The values a field of the spec may be updated to.
FieldValues ==
  [enabled |-> BOOLEAN, kind |-> Kinds, tns |-> {"", ObjNamespace},
   whitelist |-> {<< "^/api/" >>, << "[" >>},
   ignored |-> {<< >>, << "[" >>},
   urlPatterns |-> {<< >>, << "[" >>}]

EmptyStatus == [phase |-> "", observedGeneration |-> 0, conditions |-> << >>]

NoObject == [exists |-> FALSE, generation |-> 0, spec |-> DefaultSpec, status |-> EmptyStatus]

NoConfig == [Key |-> "", Enabled |-> FALSE]
\* Request paths of the access log lines.
Paths == {"/api/users", "/api/health", "/static/app.js"}

\* fmt.Sprintf("%s-%s", namespace, name)
ConfigKey(namespace, name) == namespace \o "-" \o name

Keys == {ConfigKey(ns, TargetName) : ns \in {"", ObjNamespace}}

\* Services (router names) and normalized paths of the records applied to the
\* endpoint statistics.
Services == {"web", "api"}
Endpoints == {"/a", "/b"}
EndpointKey(service, endpoint) == service \o ":" \o endpoint
\* The service "api" has one endpoint.
RecordKeys == {<< "web", "/a" >>, << "web", "/b" >>, << "api", "/a" >>}
EndpointKeys == {EndpointKey(r[1], r[2]) : r \in RecordKeys}
ServiceOf == [k \in EndpointKeys |->
               CHOOSE sv \in Services : \E e \in Endpoints : k = EndpointKey(sv, e)]
NoStat == [TotalRequests |-> 0, TotalDuration |-> 0, ErrorCount |-> 0,
           ClientErrorCount |-> 0, ServerErrorCount |-> 0, present |-> FALSE]
NoRecord == [service |-> "", endpoint |-> "", status |-> 0, duration |-> 0]

\* No text has been handed to a parser, and nothing has been returned.
NoParseIn == [kind |-> "none"]
NoParseOut == [router |-> << >>, file |-> << >>, k8s |-> << >>]

\* No streamer is looked at on its own.
NoRetry == [pc |-> "none", attempts |-> 0, Steps |-> 0, Duration |-> 0, delay |-> 0]

\* No request to /health has been answered.
NoResponse == [code |-> 0, status |-> "", log_processing |-> ""]

\* The package variables of the metrics code before any record.
InitAux ==
  /\ endpointStats = [k \in EndpointKeys |-> NoStat]
  /\ insertOrder = << >>
  /\ topPathsPerService = [sv \in Services |-> {}]
  /\ topPathsMutex = FALSE
  /\ topComplete = [sv \in Services |-> {}]
  /\ avgLatencySeries = {}
  /\ um = [pc |-> "idle", n |-> 0, rec |-> NoRecord,
           before |-> [k \in EndpointKeys |-> NoStat]]
  /\ tp = [pc |-> "idle", n |-> 0, paths |-> << >>, todo |-> {}]
  /\ mainPc = "start"
  /\ mainLines = 0
  /\ topTicker = [state |-> "none", pending |-> FALSE]
  /\ cleanerTicker = "none"
  /\ servePc = "none"
  /\ healthStatus = "starting"
  /\ sinceLastProcessed = 0
  /\ response = NoResponse
  /\ healthRequests = 0
  /\ coarseRequests = 0
  /\ parseOut = NoParseOut

\* NewConfigManager, and the API server before any object is created.
InitStore ==
  /\ objects = [o \in Objects |-> NoObject]
  /\ configs = [k \in Keys |-> NoConfig]
  /\ queue = {}
  /\ edits = 0
  /\ clock = 0
  /\ cmMu = [writer |-> FALSE, readers |-> 0]
  /\ updater = [pc |-> "idle", config |-> NoConfig, old |-> NoConfig]
  /\ proc = [pc |-> "idle", n |-> 0, key |-> "", kind |-> "", path |-> "",
             got |-> NoConfig, allowed |-> {}]
  /\ stats = [p \in Paths |-> 0]

\* ------------------------------------------------------------------- Init
InitCommon ==
  /\ podPhase \in [Pods -> {"absent", "ready"}]
  /\ podChanges = 0
  /\ podLog = [p \in Pods |-> 0]
  /\ podStreams = [p \in Pods |-> 0]
  /\ streams = [s \in StreamIds |-> NoStream]
  /\ podMutex = "free"
  /\ lastPodSync = ZeroTime
  /\ ticker = FALSE
  /\ stopCh = FALSE
  /\ wg = 0
  /\ sync = [c \in Callers |->
              [pc |-> IF mode = "file" /\ c = "main" THEN "running" ELSE "init",
               listed |-> {}, todo |-> {}]]
  /\ closePc = "idle"
  /\ lines = << >>
  /\ sendq = << >>
  /\ linesClosed = FALSE
  /\ consumer = "running"
  /\ processed = 0
  /\ lastProcessedTime = 0
  /\ lastSent = [s \in Pods \cup {FileSrc} |-> 0]
  /\ tail = [pc |-> "recv", hand |-> LogLine(FileSrc, 0, FALSE), count |-> 0,
             stopped |-> FALSE, errs |-> {}]

Init ==
  /\ mode \in {"k8s", "file"}
  /\ replicas \in IF mode = "k8s" THEN 1..NumPods ELSE {0}
  /\ InitCommon
  /\ \A p \in Pods : p > replicas => podPhase[p] = "absent"
  /\ InitStore
  /\ targets = {}
  /\ InitAux
  /\ parseIn = NoParseIn
  /\ retry = NoRetry
  /\ topNPaths = DefaultTopNPaths

\* ------------------------------------------------- cluster and clock (k8s)
K8sAlive == mode = "k8s" /\ sync["main"].pc # "failed"

\* Phase and readiness changes a run goes through: fewer the more pods there are.
ChangeBudget == MaxPodChanges + 1 - replicas

\* A pod is created, deleted, or its target container changes readiness.
PodChange(p, ph) ==
  /\ K8sAlive
  /\ p <= replicas
  /\ podPhase[p] # ph
  /\ podChanges < ChangeBudget
  /\ podChanges' = podChanges + 1
  /\ podPhase' = [podPhase EXCEPT ![p] = ph]
  /\ UNCHANGED << opVars, mode, replicas, sendq, podLog, podStreams, streams, podMutex, lastPodSync, ticker,
                  stopCh, wg, sync, closePc, lines, linesClosed, consumer,
                  processed, lastProcessedTime, lastSent, tail >>

RECURSIVE Sum(_, _)
Sum(f, S) == IF S = {} THEN 0 ELSE LET x == Min(S) IN f[x] + Sum(f, S \ {x})

Written == Sum(podLog, Pods)

\* The target container of a pod writes one access-log line.
PodWrites(p) ==
  /\ K8sAlive
  /\ podPhase[p] # "absent"
  /\ Written < MaxLines
  /\ podLog' = [podLog EXCEPT ![p] = @ + 1]
  /\ UNCHANGED << opVars, mode, replicas, sendq, podPhase, podChanges, podStreams, streams, podMutex, lastPodSync, ticker,
                  stopCh, wg, sync, closePc, lines, linesClosed, consumer,
                  processed, lastProcessedTime, lastSent, tail >>

\* syncInterval seconds pass: time stamps age, the ticker delivers a tick
\* (ticker.C holds one tick; a tick nobody took is dropped).
TimePasses ==
  /\ K8sAlive
  /\ Running
  /\ sync["watcher"].pc # "done"
  /\ lastPodSync' = Older(lastPodSync)
  /\ ticker' = TRUE
  /\ UNCHANGED << opVars, mode, replicas, sendq, podPhase, podChanges, podLog, podStreams, streams, podMutex,
                  stopCh, wg, sync, closePc, lines, linesClosed, consumer,
                  processed, lastProcessedTime, lastSent, tail >>

\* -------------------------------------------------------------- syncPods
\* What syncPods' caller does with its result.
SyncReturn(c, success, sy, lps) ==
  IF c = "main"
  THEN /\ sync' = [sy EXCEPT ![c] = [pc |-> IF success THEN "running" ELSE "failed",
                                      listed |-> {}, todo |-> {}]]
       /\ lastPodSync' = lps
  ELSE /\ sync' = [sy EXCEPT ![c] = [pc |-> "select", listed |-> {}, todo |-> {}]]
       /\ lastPodSync' = IF success THEN Now ELSE lps

\* startStreaming: start the watcher, then run the initial sync.
startStreaming ==
  /\ mode = "k8s"
  /\ sync["main"].pc = "init"
  /\ wg' = wg + 1
  /\ sync' = [sync EXCEPT !["watcher"].pc = "select", !["main"].pc = "list"]
  /\ UNCHANGED << opVars, mode, replicas, sendq, podPhase, podChanges, podLog, podStreams, streams, podMutex, lastPodSync,
                  ticker, stopCh, closePc, lines, linesClosed, consumer,
                  processed, lastProcessedTime, lastSent, tail >>

\* watchPods, case <-ticker.C
watchPodsTick ==
  /\ K8sAlive
  /\ sync["watcher"].pc = "select"
  /\ ticker
  /\ ticker' = FALSE
  /\ IF Since(lastPodSync) < syncInterval
     THEN UNCHANGED << sync, lastPodSync >>
     ELSE /\ sync' = [sync EXCEPT !["watcher"].pc =
                         IF ~lastPodSync.zero /\ Since(lastPodSync) < podDiscoveryTimeout
                         THEN "cached" ELSE "list"]
          /\ UNCHANGED lastPodSync
  /\ UNCHANGED << opVars, mode, replicas, sendq, podPhase, podChanges, podLog, podStreams, streams, podMutex,
                  stopCh, wg, closePc, lines, linesClosed, consumer,
                  processed, lastProcessedTime, lastSent, tail >>

\* watchPods, after a syncPods that answered from the cache without listing:
\* the closure of ExponentialBackoff stamps the sync time. The read of
\* lastPodSync in syncPods and this write take no lock, so other goroutines
\* run between them.
watchPodsStamp ==
  /\ K8sAlive
  /\ sync["watcher"].pc = "cached"
  /\ lastPodSync' = Now
  /\ sync' = [sync EXCEPT !["watcher"].pc = "select"]
  /\ UNCHANGED << opVars, mode, replicas, sendq, podPhase, podChanges, podLog, podStreams, streams, podMutex,
                  ticker, stopCh, wg, closePc, lines, linesClosed, consumer,
                  processed, lastProcessedTime, lastSent, tail >>

\* watchPods, case <-kls.stopCh
watchPodsStop ==
  /\ K8sAlive
  /\ sync["watcher"].pc = "select"
  /\ stopCh
  /\ sync' = [sync EXCEPT !["watcher"].pc = "done"]
  /\ wg' = wg - 1
  /\ UNCHANGED << opVars, mode, replicas, sendq, podPhase, podChanges, podLog, podStreams, streams, podMutex, lastPodSync,
                  ticker, stopCh, closePc, lines, linesClosed, consumer,
                  processed, lastProcessedTime, lastSent, tail >>

\* pods.Items: the pods the API server lists for the label selector.
Items == {p \in Pods : podPhase[p] # "absent"}

\* syncPods: the List call and its two early returns.
syncPodsList(c, apiError) ==
  /\ K8sAlive
  /\ sync[c].pc = "list"
  /\ LET items == Items IN
     IF apiError \/ items = {}
     THEN SyncReturn(c, FALSE, sync, lastPodSync)
     ELSE /\ sync' = [sync EXCEPT ![c] = [pc |-> "store",
                         listed |-> {p \in items : podPhase[p] = "ready"},
                         todo |-> {}]]
          /\ UNCHANGED lastPodSync
  /\ UNCHANGED << opVars, mode, replicas, sendq, podPhase, podChanges, podLog, podStreams, streams, podMutex, ticker,
                  stopCh, wg, closePc, lines, linesClosed, consumer,
                  processed, lastProcessedTime, lastSent, tail >>

\* syncPods: cache the list under the mutex and stamp the sync time.
syncPodsStore(c) ==
  /\ K8sAlive
  /\ sync[c].pc = "store"
  /\ podMutex = "free"
  /\ lastPodSync' = Now
  /\ sync' = [sync EXCEPT ![c].todo = sync[c].listed,
                          ![c].pc = IF sync[c].listed = {} THEN "cleanup" ELSE "ensure"]
  /\ UNCHANGED << opVars, mode, replicas, sendq, podPhase, podChanges, podLog, podStreams, streams, podMutex, ticker,
                  stopCh, wg, closePc, lines, linesClosed, consumer,
                  processed, lastProcessedTime, lastSent, tail >>


\* ensurePodStream(p): spawn a streamer unless podStreams already has an entry.
ensurePodStream(p) ==
  IF podStreams[p] # 0
  THEN UNCHANGED << podStreams, streams, wg >>
  ELSE /\ FreeIds # {}
       /\ LET s == Min(FreeIds) IN
          /\ podStreams' = [podStreams EXCEPT ![p] = s]
          /\ streams' = [streams EXCEPT ![s] =
                           [pod |-> p, pc |-> "top", cancelled |-> FALSE, pos |-> 0]]
          /\ wg' = wg + 1

\* syncPods: one iteration of the loop over the listed pods.
syncPodsEnsure(c) ==
  /\ K8sAlive
  /\ sync[c].pc = "ensure"
  /\ podMutex = "free"
  /\ LET p == Min(sync[c].todo) IN
     /\ ensurePodStream(p)
     /\ sync' = [sync EXCEPT ![c].todo = @ \ {p},
                             ![c].pc = IF sync[c].todo = {p} THEN "cleanup" ELSE "ensure"]
  /\ UNCHANGED << opVars, mode, replicas, sendq, podPhase, podChanges, podLog, podMutex, lastPodSync, ticker,
                  stopCh, closePc, lines, linesClosed, consumer,
                  processed, lastProcessedTime, lastSent, tail >>

\* The tracked pods syncPods' last loop cancels and forgets.
Removed(currentPods) == {p \in Pods : podStreams[p] # 0 /\ p \notin currentPods}

\* syncPods: cancel and delete the entries of pods not in currentPods, return.
syncPodsCleanup(c) ==
  /\ K8sAlive
  /\ sync[c].pc = "cleanup"
  /\ podMutex = "free"
  /\ LET gone == Removed(sync[c].listed) IN
     /\ streams' = LET S == {podStreams[p] : p \in gone}
                    IN Forget(Cancel(streams, S), S)
     /\ podStreams' = [p \in Pods |-> IF p \in gone THEN 0 ELSE podStreams[p]]
  /\ SyncReturn(c, TRUE, sync, lastPodSync)
  /\ UNCHANGED << opVars, mode, replicas, sendq, podPhase, podChanges, podLog, podMutex, ticker,
                  stopCh, wg, closePc, lines, linesClosed, consumer,
                  processed, lastProcessedTime, lastSent, tail >>

\* ------------------------------------------------------------- streamers
\* The goroutine of stream s moves on; one that has exited and that no
\* podStreams entry names any more leaves no trace.
SetStream(s, pc, pos) ==
  streams' = [streams EXCEPT ![s] =
                IF pc = "done" /\ \A p \in Pods : podStreams[p] # s
                THEN NoStream
                ELSE [@ EXCEPT !.pc = pc, !.pos = pos]]

\* streamPodLogsWithRetry: the select on ctx.Done(), podExists, and the
\* opening of the log stream (req.Stream with SinceTime = now).
\* r = "gone":     podExists answers false (NotFound, or any other error)
\* r = "ok":       the stream is open
\* r = "notfound": the pod went away after podExists: a "not found" error
\* r = "error":    any other error opening the stream
streamTop(s, r) ==
  /\ K8sAlive
  /\ streams[s].pc = "top"
  /\ LET p == streams[s].pod IN
     IF streams[s].cancelled \/ r = "gone"
     THEN /\ SetStream(s, "done", 0)
          /\ wg' = wg - 1
     ELSE /\ CASE r = "ok" -> /\ podPhase[p] # "absent"
                              /\ SetStream(s, "scan", podLog[p])
               [] r = "notfound" -> /\ podPhase[p] = "absent"
                                    /\ SetStream(s, "resync", 0)
               [] OTHER -> UNCHANGED streams
          /\ UNCHANGED wg
  /\ UNCHANGED << opVars, mode, replicas, sendq, podPhase, podChanges, podLog, podStreams, podMutex, lastPodSync, ticker,
                  stopCh, sync, closePc, lines, linesClosed, consumer,
                  processed, lastProcessedTime, lastSent, tail >>

\* streamPodLogs: scanner.Scan() and the select on ctx.Done().
\* gotLine = FALSE: the stream ended or failed, or the context was cancelled;
\* after the sleep the goroutine is back at the top of its loop.
streamScan(s, gotLine) ==
  /\ K8sAlive
  /\ streams[s].pc = "scan"
  /\ LET p == streams[s].pod IN
     IF gotLine
     THEN /\ ~streams[s].cancelled
          /\ podPhase[p] # "absent"
          /\ streams[s].pos < podLog[p]
          /\ SetStream(s, "send", streams[s].pos + 1)
     ELSE SetStream(s, "top", 0)
  /\ UNCHANGED << opVars, mode, replicas, sendq, podPhase, podChanges, podLog, podStreams, podMutex, lastPodSync, ticker,
                  stopCh, wg, sync, closePc, lines, linesClosed, consumer,
                  processed, lastProcessedTime, lastSent, tail >>

\* streamPodLogs: kls.lines <- LogLine{...}
streamSend(s) ==
  /\ K8sAlive
  /\ streams[s].pc = "send"
  /\ Send(s, LogLine(streams[s].pod, streams[s].pos, FALSE))
  /\ SetStream(s, AfterSend("scan"), streams[s].pos)
  /\ UNCHANGED << opVars, mode, replicas, podPhase, podChanges, podLog, podStreams, podMutex, lastPodSync, ticker,
                  stopCh, wg, sync, closePc, linesClosed, consumer,
                  processed, lastProcessedTime, tail >>

\* forcePodResync, called on a "not found" stream error; then the backoff
\* sleep and back to the top of the loop.
forcePodResync(s) ==
  /\ K8sAlive
  /\ streams[s].pc = "resync"
  /\ podMutex = "free"
  /\ lastPodSync' = ZeroTime
  /\ SetStream(s, "top", 0)
  /\ UNCHANGED << opVars, mode, replicas, sendq, podPhase, podChanges, podLog, podStreams, podMutex, ticker,
                  stopCh, wg, sync, closePc, lines, linesClosed, consumer,
                  processed, lastProcessedTime, lastSent, tail >>

\* ------------------------------------------------- KubernetesLogSource.Close
\* main's deferred Close runs when ProcessLogs has been left: nothing
\* receives from the channel any more. Close begins with close(kls.stopCh).
CloseStart ==
  /\ K8sAlive
  /\ Running
  /\ closePc = "idle"
  /\ consumer' = "stopped"
  /\ stopCh' = TRUE
  /\ closePc' = "lock"
  /\ UNCHANGED << opVars, mode, replicas, sendq, podPhase, podChanges, podLog, podStreams, streams, podMutex, lastPodSync,
                  ticker, wg, sync, lines, linesClosed,
                  processed, lastProcessedTime, lastSent, tail >>

CloseCancel ==
  /\ K8sAlive
  /\ closePc = "lock"
  /\ podMutex = "free"
  /\ podMutex' = "close"
  /\ streams' = Cancel(streams, {podStreams[p] : p \in Pods} \ {0})
  /\ closePc' = "wait"
  /\ UNCHANGED << opVars, mode, replicas, sendq, podPhase, podChanges, podLog, podStreams, lastPodSync,
                  ticker, stopCh, wg, sync, lines, linesClosed, consumer,
                  processed, lastProcessedTime, lastSent, tail >>

\* kls.wg.Wait() returns; the deferred Unlock runs.
CloseReturn ==
  /\ K8sAlive
  /\ closePc = "wait"
  /\ wg = 0
  /\ podMutex' = "free"
  /\ closePc' = "returned"
  /\ UNCHANGED << opVars, mode, replicas, sendq, podPhase, podChanges, podLog, podStreams, streams, lastPodSync,
                  ticker, stopCh, wg, sync, lines, linesClosed, consumer,
                  processed, lastProcessedTime, lastSent, tail >>

\* ------------------------------------------------------------ file source
\* tail delivers the next line of the file, or a read error, on t.Lines.
fileRead(err) ==
  /\ mode = "file"
  /\ tail.pc = "recv"
  /\ ~tail.stopped
  /\ tail.count < MaxLines
  /\ tail' = [tail EXCEPT !.pc = "send", !.count = @ + 1,
                          !.hand = LogLine(FileSrc, tail.count + 1, err),
                          !.errs = IF err THEN @ \cup {tail.count + 1} ELSE @]
  /\ UNCHANGED << opVars, mode, replicas, sendq, k8sVars, closePc, lines, linesClosed, consumer,
                  processed, lastProcessedTime, lastSent >>

\* fls.lines <- LogLine{...}
fileSend ==
  /\ mode = "file"
  /\ tail.pc = "send"
  /\ Send(FileSrc, tail.hand)
  /\ tail' = [tail EXCEPT !.pc = AfterSend("recv")]
  /\ UNCHANGED << opVars, mode, replicas, k8sVars, closePc, linesClosed, consumer,
                  processed, lastProcessedTime >>

\* t.Lines is closed: the range loop ends and the deferred close(fls.lines) runs.
fileEnd ==
  /\ mode = "file"
  /\ tail.pc = "recv"
  /\ tail.stopped
  /\ tail' = [tail EXCEPT !.pc = "done"]
  /\ linesClosed' = TRUE
  /\ UNCHANGED << opVars, mode, replicas, sendq, k8sVars, closePc, lines, consumer,
                  processed, lastProcessedTime, lastSent >>

\* FileLogSource.Close: tail.Stop()
fileClose ==
  /\ mode = "file"
  /\ consumer = "stopped"
  /\ closePc = "idle"
  /\ tail' = [tail EXCEPT !.stopped = TRUE]
  /\ closePc' = "returned"
  /\ UNCHANGED << opVars, mode, replicas, sendq, k8sVars, lines, linesClosed, consumer,
                  processed, lastProcessedTime, lastSent >>

\* The tailer gives up on its own (the file is permanently unavailable).
tailDies ==
  /\ mode = "file"
  /\ ~tail.stopped
  /\ tail' = [tail EXCEPT !.stopped = TRUE]
  /\ UNCHANGED << opVars, mode, replicas, sendq, k8sVars, closePc, lines, linesClosed, consumer,
                  processed, lastProcessedTime, lastSent >>

\* ------------------------------------------------------------ ProcessLogs
\* A loop that a line carrying an error ends.
ProcessLogsEndsOnError ==
  /\ Running
  /\ consumer = "running"
  /\ Receive
  /\ lastProcessedTime' = lastProcessedTime + 1
  /\ processed' = IF Head(lines).err THEN processed ELSE processed + 1
  /\ consumer' = IF Head(lines).err THEN "stopped" ELSE consumer
  /\ UNCHANGED << opVars, mode, replicas, podPhase, podChanges, podLog, podStreams, podMutex,
                  lastPodSync, ticker, stopCh, wg, sync, closePc, linesClosed >>

\* One iteration of `for logLine := range logSource.ReadLines()`.
ProcessLogs ==
  /\ Running
  /\ consumer = "running"
  /\ Receive
  /\ lastProcessedTime' = lastProcessedTime + 1
  /\ processed' = IF Head(lines).err THEN processed ELSE processed + 1
  /\ UNCHANGED << opVars, mode, replicas, podPhase, podChanges, podLog, podStreams, podMutex,
                  lastPodSync, ticker, stopCh, wg, sync, closePc, linesClosed, consumer >>

\* The range loop ends: the channel is closed and drained.
ProcessLogsReturn ==
  /\ Running
  /\ consumer = "running"
  /\ linesClosed
  /\ lines = << >>
  /\ consumer' = "stopped"
  /\ UNCHANGED << opVars, mode, replicas, sendq, k8sVars, closePc, lines, linesClosed, processed,
                  lastProcessedTime, lastSent, tail >>

\* ------------------------------------------------------------------- Next
Next ==
  \/ \E p \in Pods, ph \in {"absent", "notready", "ready"} : PodChange(p, ph)
  \/ \E p \in Pods : PodWrites(p)
  \/ TimePasses
  \/ startStreaming
  \/ watchPodsTick
  \/ watchPodsStamp
  \/ watchPodsStop
  \/ \E c \in Callers, e \in BOOLEAN : syncPodsList(c, e)
  \/ \E c \in Callers : syncPodsStore(c)
  \/ \E c \in Callers : syncPodsEnsure(c)
  \/ \E c \in Callers : syncPodsCleanup(c)
  \/ \E s \in StreamIds, r \in {"gone", "ok", "notfound", "error"} : streamTop(s, r)
  \/ \E s \in StreamIds, g \in BOOLEAN : streamScan(s, g)
  \/ \E s \in StreamIds : streamSend(s)
  \/ \E s \in StreamIds : forcePodResync(s)
  \/ CloseStart
  \/ CloseCancel
  \/ CloseReturn
  \/ \E e \in BOOLEAN : fileRead(e)
  \/ fileSend
  \/ fileEnd
  \/ fileClose
  \/ tailDies
  \/ ProcessLogs
  \/ ProcessLogsReturn

Spec == Init /\ [][Next]_vars


\* --------------------------------------------------- operator: API server
\* kubectl create: a UrlPerformance object with the default spec.
Create(o) ==
  /\ mode = "operator"
  /\ ~objects[o].exists
  /\ edits < MaxEdits
  /\ objects' = [objects EXCEPT ![o] = [exists |-> TRUE, generation |-> 1,
                                        spec |-> DefaultSpec, status |-> EmptyStatus]]
  /\ queue' = queue \cup {o}
  /\ edits' = edits + 1
  /\ UNCHANGED << targets, configs, clock, plVars, gateVars, auxVars >>

\* kubectl edit: one field of the spec changes.
Update(o, f, v) ==
  /\ mode = "operator"
  /\ objects[o].exists
  /\ objects[o].spec[f] # v
  /\ edits < MaxEdits
  /\ objects' = [objects EXCEPT ![o].spec[f] = v, ![o].generation = @ + 1]
  /\ queue' = queue \cup {o}
  /\ edits' = edits + 1
  /\ UNCHANGED << targets, configs, clock, plVars, gateVars, auxVars >>

\* kubectl delete: the object is gone; its last state stays on record.
Delete(o) ==
  /\ mode = "operator"
  /\ objects[o].exists
  /\ edits < MaxEdits
  /\ objects' = [objects EXCEPT ![o].exists = FALSE]
  /\ queue' = queue \cup {o}
  /\ edits' = edits + 1
  /\ UNCHANGED << targets, configs, clock, plVars, gateVars, auxVars >>

\* A change of the object's metadata (a label, an annotation): the spec and
\* the generation stay, and the controller, which watches the objects without
\* a predicate, gets the request again.
Touch(o) ==
  /\ mode = "operator"
  /\ objects[o].exists
  /\ o \notin queue
  /\ edits < MaxEdits
  /\ queue' = queue \cup {o}
  /\ edits' = edits + 1
  /\ UNCHANGED << objects, targets, configs, clock, plVars, gateVars, auxVars >>

\* The target resource of kind k is created or deleted.
TargetChange(k) ==
  /\ mode = "operator"
  /\ edits < MaxEdits
  /\ targets' = IF k \in targets THEN targets \ {k} ELSE targets \cup {k}
  /\ edits' = edits + 1
  /\ UNCHANGED << objects, configs, queue, clock, plVars, gateVars, auxVars >>

\* ---------------------------------------------------- operator: reconciler
UpdateConfig(cfgs, config) ==
  IF ~config.Enabled
  THEN [cfgs EXCEPT ![config.Key] = NoConfig]
  ELSE [cfgs EXCEPT ![config.Key] = config]

\* An upsert that stores the new condition whatever the stored status is.
updateConditionAlways(conds, condType, status, reason) ==
  LET new == [type |-> condType, status |-> status,
              lastTransitionTime |-> clock, reason |-> reason]
      found == {i \in 1..Len(conds) : conds[i].type = condType}
  IN IF found = {}
     THEN Append(conds, new)
     ELSE [conds EXCEPT ![Min(found)] = new]

updateCondition(conds, condType, status, reason) ==
  LET new == [type |-> condType, status |-> status,
              lastTransitionTime |-> clock, reason |-> reason]
      found == {i \in 1..Len(conds) : conds[i].type = condType}
  IN IF found = {}
     THEN Append(conds, new)
     ELSE LET i == Min(found)
          IN IF conds[i].status # status THEN [conds EXCEPT ![i] = new] ELSE conds

\* What a reconcile of the instance leaves: the store and the status it
\* hands to updateStatus.
handleDisabled(instance) ==
  LET configKey == ConfigKey(instance.spec.tns, instance.spec.tname)
  IN [configs |-> UpdateConfig(configs, [Key |-> configKey, Enabled |-> FALSE]),
      status |-> [instance.status EXCEPT
                    !.phase = "Disabled",
                    !.conditions = updateCondition(@, "Ready", "False", "Disabled")]]

\* An error return that also drops what the store holds.
ReconcileErrorClearsStore(instance, conds) ==
  [configs |-> [k \in Keys |-> NoConfig],
   status |-> [instance.status EXCEPT !.phase = "Error", !.conditions = conds]]

ReconcileError(instance, conds) ==
  [configs |-> configs,
   status |-> [instance.status EXCEPT !.phase = "Error", !.conditions = conds]]

ReconcileInstance(instance) ==
  LET sp == instance.spec
      targetNamespace == IF sp.tns = "" THEN ObjNamespace ELSE sp.tns
      targetExists == sp.kind = "Ingress" /\ "Ingress" \in targets
      conds0 == instance.status.conditions
      conds1 == updateCondition(conds0, "TargetExists", "True", "Found")
      configKey == ConfigKey(targetNamespace, sp.tname)
      allCompile(ps) == \A i \in 1..Len(ps) : Compiles(ps[i])
      runtimeConfig ==
        [Key |-> configKey, Namespace |-> targetNamespace, TargetName |-> sp.tname,
         TargetKind |-> sp.kind, WhitelistRegex |-> sp.whitelist,
         IgnoredRegex |-> sp.ignored,
         URLPatterns |-> SelectSeq(sp.urlPatterns, Compiles),
         Enabled |-> sp.enabled, LastUpdated |-> clock]
  IN IF ~sp.enabled THEN handleDisabled(instance)
     ELSE IF ~targetExists
     THEN ReconcileError(instance,
            updateCondition(conds0, "TargetExists", "False", "NotFound"))
     ELSE IF ~allCompile(sp.whitelist) \/ ~allCompile(sp.ignored)
     THEN ReconcileError(instance,
            updateCondition(conds1, "ConfigGenerated", "False", "InvalidRegex"))
     ELSE [configs |-> UpdateConfig(configs, runtimeConfig),
           status |-> [phase |-> "Active",
                       observedGeneration |-> instance.generation,
                       conditions |->
                         updateCondition(
                           updateCondition(conds1, "ConfigGenerated", "True", "Generated"),
                           "Ready", "True", "Ready")]]

\* One Reconcile call for the request o taken from the work queue;
\* updateFails: r.Status().Update returns an error and the request is retried.
Reconcile(o, updateFails) ==
  /\ mode = "operator"
  /\ o \in queue
  /\ clock < MaxClock
  /\ clock' = clock + 1
  /\ IF ~objects[o].exists
     THEN /\ queue' = queue \ {o}
          /\ UNCHANGED << objects, configs >>
     ELSE LET res == ReconcileInstance(objects[o])
          IN /\ configs' = res.configs
             /\ IF updateFails
                THEN UNCHANGED << objects, queue >>
                ELSE /\ objects' = [objects EXCEPT ![o].status = res.status]
                     /\ queue' = queue \ {o}
  /\ UNCHANGED << targets, edits, plVars, gateVars, auxVars >>

InitOperator ==
  /\ mode = "operator"
  /\ replicas = 0
  /\ InitCommon
  /\ \A p \in Pods : podPhase[p] = "absent"
  /\ InitStore
  /\ targets \in SUBSET Kinds
  /\ InitAux
  /\ parseIn = NoParseIn
  /\ retry = NoRetry
  /\ topNPaths = DefaultTopNPaths

NextOperator ==
  \/ \E o \in Objects : Create(o)
  \/ \E o \in Objects, f \in DOMAIN FieldValues : \E v \in FieldValues[f] : Update(o, f, v)
  \/ \E o \in Objects : Delete(o)
  \/ \E o \in Objects : Touch(o)
  \/ \E k \in Kinds : TargetChange(k)
  \/ \E o \in Objects, e \in BOOLEAN : Reconcile(o, e)

SpecOperator == InitOperator /\ [][NextOperator]_vars

\* The key under which a reconcile of the object stores its configuration.
KeyOf(o) ==
  ConfigKey(IF objects[o].spec.tns = "" THEN ObjNamespace ELSE objects[o].spec.tns,
            objects[o].spec.tname)

\* C10: once the deletion of an object that had been reconciled to Active
\* has been reconciled, the store holds no entry under the object's key.
C10_DeletedObjectLeavesStore ==
  \A o \in Objects :
    (~objects[o].exists /\ objects[o].status.phase = "Active" /\ o \notin queue)
      => configs[KeyOf(o)] = NoConfig

\* ------------------------------------------------------------- shutdown
\* The pod watcher and every streamer goroutine have exited.
AllExited == sync["watcher"].pc = "done" /\ \A s \in StreamIds : ~Live(s)

\* A goroutine Close waits for stands at a podMutex.Lock() call.
AtPodMutex ==
  \/ sync["watcher"].pc \in {"store", "ensure", "cleanup"}
  \/ \E s \in StreamIds : streams[s].pc = "resync"

\* C1: once Close has been called on the Kubernetes source and the pod
\* watcher and every streamer have exited, the output channel is closed.
C1_ChannelClosedAfterClose ==
  (mode = "k8s" /\ closePc # "idle" /\ AllExited) => linesClosed

\* C2: while Close holds the pod mutex and waits for the goroutines, none of
\* them stands at a lock of that mutex (Close and the goroutine would wait
\* for each other for ever).
C2_CloseNeverDeadlocks == ~(closePc = "wait" /\ AtPodMutex)

\* C3: a cancelled streamer is never left blocked in its send with nobody
\* receiving (it would stay there for ever).
C3_CancelledStreamerNotStuck ==
  \A s \in StreamIds :
    ~(streams[s].cancelled /\ streams[s].pc = "blocked" /\ consumer = "stopped")


\* ------------------------------------------------------------ sync passes
\* C4: the watcher skips a tick only when the previous sync completed less
\* than one tick ago; on every other tick it lists the pods.
C4_TickListsPods ==
  [][(watchPodsTick /\ Since(lastPodSync) >= syncInterval)
       => sync'["watcher"].pc = "list"]_vars

\* C5: when a sync pass has ensured the stream of a listed Running and Ready
\* pod, that pod has a live streamer goroutine.
C5_EnsuredPodHasLiveStreamer ==
  [][\A c \in Callers :
       syncPodsEnsure(c) =>
         LET p == Min(sync[c].todo)
         IN /\ podStreams'[p] # 0
            /\ streams'[podStreams'[p]].pc \notin {"none", "done"}]_vars

\* C6: when a sync pass for which the API server returned a pod list ends,
\* no tracked pod is absent from that list.
C6_PassLeavesNoAbsentPodTracked ==
  [][\A c \in Callers :
       /\ (syncPodsList(c, FALSE) /\ sync'[c].pc # "store")
            => \A p \in Pods : podStreams'[p] # 0 => p \in Items
       /\ syncPodsCleanup(c)
            => \A p \in Pods : podStreams'[p] # 0 => p \in sync[c].listed]_vars

\* -------------------------------------------------------------- the channel
\* C7: every line that enters the output channel is a later line of its
\* source than every line of that source that entered before.
C7_PerSourceOrder ==
  [][\A src \in Pods \cup {FileSrc} :
       lastSent'[src] # lastSent[src] => lastSent'[src] > lastSent[src]]_vars


Range(q) == {q[i] : i \in 1..Len(q)}

\* The senders that hold a line they have not put on the channel yet.
Holding(st, tl) ==
  {s \in StreamIds : st[s].pc \in {"send", "blocked"}}
    \cup (IF tl.pc \in {"send", "blocked"} THEN {FileSrc} ELSE {})

ChannelBounded ==
  /\ Len(lines) <= LinesCap
  /\ sendq # << >> => Len(lines) = LinesCap
  /\ \A s \in StreamIds : streams[s].pc = "blocked" <=> s \in Range(sendq)
  /\ tail.pc = "blocked" <=> FileSrc \in Range(sendq)
  /\ mode = "file" =>
       tail.count = lastSent[FileSrc] + Cardinality(Holding(streams, tail))

\* A sender that holds a line keeps it until it is the channel's newest line.
LineKept ==
  /\ \A s \in Holding(streams, tail) \ {FileSrc} :
       \/ /\ s \in Holding(streams', tail')
          /\ streams'[s].pod = streams[s].pod
          /\ streams'[s].pos = streams[s].pos
       \/ /\ streams'[s].pc = "scan"
          /\ lines' # << >>
          /\ lines'[Len(lines')] = LogLine(streams[s].pod, streams[s].pos, FALSE)
  /\ FileSrc \in Holding(streams, tail) =>
       \/ FileSrc \in Holding(streams', tail') /\ tail'.hand = tail.hand
       \/ /\ tail'.pc = "recv"
          /\ lines' # << >>
          /\ lines'[Len(lines')] = tail.hand

ErrorsReceived ==
  Cardinality({n \in tail.errs : n <= lastSent[FileSrc] - Len(lines)})

\* C9: receiving a line that carries an error changes no metric and leaves
\* the loop running, and every line received without an error, before or
\* after it, is processed.
C9_ErrorLineSkipped ==
  /\ [](processed = lastProcessedTime - ErrorsReceived)
  /\ [][(ProcessLogs /\ Head(lines).err)
          => (processed' = processed /\ consumer' = "running")]_vars

\* The first line of the file failed and was skipped, the second was processed.
C9_ProcessedAfterError ==
  /\ mode = "file"
  /\ tail.errs = {1}
  /\ lastProcessedTime = 2
  /\ processed = 1
  /\ consumer = "running"


\* ------------------------------------------------------- reconcile outcomes
\* status.conditions holds a condition of the type with the status and reason.
HasCondition(conds, condType, status, reason) ==
  \E i \in 1..Len(conds) :
    conds[i].type = condType /\ conds[i].status = status /\ conds[i].reason = reason

\* C11: a reconcile of an object with enabled = false removes the store entry
\* under the key its configuration was upserted under (the target namespace
\* defaulting to the object's namespace), and, its status update succeeding,
\* leaves phase Disabled and Ready = False with reason Disabled.
C11_DisabledRemovesEntry ==
  [][\A o \in Objects, e \in BOOLEAN :
       (Reconcile(o, e) /\ objects[o].exists /\ ~objects[o].spec.enabled)
         => /\ configs'[KeyOf(o)] = NoConfig
            /\ ~e => /\ objects'[o].status.phase = "Disabled"
                     /\ HasCondition(objects'[o].status.conditions,
                                     "Ready", "False", "Disabled")]_vars


\* The resource the object's targetRef names exists.
TargetPresent(o) == objects[o].spec.kind \in targets

\* Every pattern of every regex field of the object's spec compiles.
AllCompile(o) ==
  \A f \in {"whitelist", "ignored", "urlPatterns"} :
    \A i \in 1..Len(objects[o].spec[f]) : Compiles(objects[o].spec[f][i])

\* C12: a reconcile of an enabled object whose target is absent leaves the
\* store as it was and, its status update succeeding, leaves phase Error and
\* TargetExists = False with reason NotFound.
C12_AbsentTargetLeavesStore ==
  [][\A o \in Objects, e \in BOOLEAN :
       (Reconcile(o, e) /\ objects[o].exists /\ objects[o].spec.enabled
          /\ ~TargetPresent(o))
         => /\ configs' = configs
            /\ ~e => /\ objects'[o].status.phase = "Error"
                     /\ HasCondition(objects'[o].status.conditions,
                                     "TargetExists", "False", "NotFound")]_vars

\* The target is gone, the object is in phase Error, and the configuration an
\* earlier reconcile stored is still in the store.
C12_ErrorKeepsEarlierConfig ==
  \E o \in Objects :
    /\ objects[o].exists /\ objects[o].spec.enabled /\ ~TargetPresent(o)
    /\ o \notin queue
    /\ objects[o].status.phase = "Error"
    /\ HasCondition(objects[o].status.conditions, "TargetExists", "False", "NotFound")
    /\ configs[KeyOf(o)] # NoConfig

\* C13: a reconcile of an enabled object with an existing target and a regex
\* field that does not compile leaves the store as it was and, its status
\* update succeeding, leaves phase Error and ConfigGenerated = False with
\* reason InvalidRegex.
C13_InvalidRegexRejected ==
  [][\A o \in Objects, e \in BOOLEAN :
       (Reconcile(o, e) /\ objects[o].exists /\ objects[o].spec.enabled
          /\ objects[o].spec.kind = "Ingress" /\ TargetPresent(o) /\ ~AllCompile(o))
         => /\ configs' = configs
            /\ ~e => /\ objects'[o].status.phase = "Error"
                     /\ HasCondition(objects'[o].status.conditions,
                                     "ConfigGenerated", "False", "InvalidRegex")]_vars

\* A successful reconcile's outcome for object o: the configuration is in the
\* store under the object's key, and the status is Active with the three
\* conditions True and the generation observed.
Upserted(o) ==
  /\ configs'[KeyOf(o)] # NoConfig
  /\ configs'[KeyOf(o)].Key = KeyOf(o)
  /\ configs'[KeyOf(o)].TargetKind = objects[o].spec.kind

ActiveStatus(st, generation) ==
  /\ st.phase = "Active"
  /\ st.observedGeneration = generation
  /\ HasCondition(st.conditions, "TargetExists", "True", "Found")
  /\ HasCondition(st.conditions, "ConfigGenerated", "True", "Generated")
  /\ HasCondition(st.conditions, "Ready", "True", "Ready")

\* C14: a reconcile of an enabled object of kind IngressRoute whose
\* IngressRoute exists and whose regexes compile upserts the configuration
\* and, its status update succeeding, leaves the object Active.
C14_IngressRouteResolved ==
  [][\A o \in Objects, e \in BOOLEAN :
       (Reconcile(o, e) /\ objects[o].exists /\ objects[o].spec.enabled
          /\ objects[o].spec.kind = "IngressRoute" /\ TargetPresent(o)
          /\ AllCompile(o))
         => /\ Upserted(o)
            /\ ~e => ActiveStatus(objects'[o].status, objects[o].generation)]_vars

\* C15: a reconcile of an enabled object whose target exists and whose
\* regexes compile upserts the configuration under the object's key and, its
\* status update succeeding, leaves the object Active with the generation
\* observed, whatever its phase was.
C15_SuccessfulReconcile ==
  [][\A o \in Objects, e \in BOOLEAN :
       (Reconcile(o, e) /\ objects[o].exists /\ objects[o].spec.enabled
          /\ TargetPresent(o) /\ AllCompile(o))
         => /\ Upserted(o)
            /\ ~e => ActiveStatus(objects'[o].status, objects[o].generation)]_vars


\* ------------------------------------------------------- status conditions
CondTypes == {"TargetExists", "ConfigGenerated", "Ready"}
CondStatuses == {"True", "False"}

\* conds holds at most one condition of each type.
OnePerType(conds) ==
  \A i, j \in 1..Len(conds) : conds[i].type = conds[j].type => i = j

\* Every condition of old whose type is in new with the same status has in
\* new the transition time it has in old.
TransitionTimesKept(old, new) ==
  \A i \in 1..Len(old), j \in 1..Len(new) :
    (new[j].type = old[i].type /\ new[j].status = old[i].status)
      => new[j].lastTransitionTime = old[i].lastTransitionTime

\* C16: updateCondition, applied to the conditions of any object with any
\* type and status, leaves at most one condition of each type, and leaves the
\* last transition time of every condition whose status it does not change.
C16_ConditionUpsert ==
  \A o \in Objects, t \in CondTypes, st \in CondStatuses :
    LET conds == objects[o].status.conditions
        new == updateCondition(conds, t, st, "Reason")
    IN /\ OnePerType(conds)
       /\ OnePerType(new)
       /\ TransitionTimesKept(conds, new)

\* A later reconcile changed the status of one condition of an object and
\* kept another: the object holds conditions with different transition times.
C16_ConditionKeptAcrossReconciles ==
  \E o \in Objects :
    LET conds == objects[o].status.conditions
    IN /\ Len(conds) = 3
       /\ \E i, j \in 1..Len(conds) :
            conds[i].lastTransitionTime < conds[j].lastTransitionTime

\* C17: a reconcile of an object that is Active at its current generation,
\* the only object there has been, and whose configuration is in the store,
\* leaves under the object's key a configuration equal in every field to the
\* stored one and, its status update succeeding, the transition time of every
\* condition whose status it does not change.
C17_ReconcileIdempotent ==
  [][\A o \in Objects, e \in BOOLEAN :
       (/\ Reconcile(o, e)
        /\ objects[o].exists
        /\ \A p \in Objects \ {o} : objects[p].generation = 0
        /\ objects[o].status.phase = "Active"
        /\ objects[o].status.observedGeneration = objects[o].generation
        /\ configs[KeyOf(o)] # NoConfig)
         => /\ configs'[KeyOf(o)] = configs[KeyOf(o)]
            /\ ~e => TransitionTimesKept(objects[o].status.conditions,
                                         objects'[o].status.conditions)]_vars


\* ------------------------------------------- operator mode: the config gate
\* strings.Index for a one-character separator: 0 when it is not in s.
Index(s, c) ==
  LET at == {i \in 1..Len(s) : SubSeq(s, i, i) = c}
  IN IF at = {} THEN 0 ELSE Min(at)

\* strings.Split for a one-character separator.
RECURSIVE Split(_, _)
Split(s, sep) ==
  LET i == Index(s, sep)
  IN IF i = 0 THEN << s >>
     ELSE << SubSeq(s, 1, i - 1) >> \o Split(SubSeq(s, i + 1, Len(s)), sep)

\* strings.Join.
RECURSIVE Join(_, _)
Join(parts, sep) ==
  IF Len(parts) = 0 THEN ""
  ELSE IF Len(parts) = 1 THEN parts[1]
  ELSE parts[1] \o sep \o Join(Tail(parts), sep)

HexDigits == {"0", "1", "2", "3", "4", "5", "6", "7", "8", "9",
              "a", "b", "c", "d", "e", "f"}

\* regexp ^[0-9a-f]{12,}$
isHexString(s) ==
  Len(s) >= 12 /\ \A i \in 1..Len(s) : SubSeq(s, i, i) \in HexDigits

\* The router identity parseRouterName decodes; parts are numbered from 1.
parseRouterName(routerName) ==
  LET idx == Index(routerName, "@")
      provider == IF idx = 0 THEN "" ELSE SubSeq(routerName, idx + 1, Len(routerName))
      name == IF idx = 0 THEN routerName ELSE SubSeq(routerName, 1, idx - 1)
      targetKind == IF provider = "kubernetes" THEN "Ingress"
                    ELSE IF provider = "kubernetescrd" THEN "IngressRoute"
                    ELSE ""
      parts == Split(name, "-")
      \* the last part at or after position from that is a hash
      hashAt(from) ==
        LET hs == {i \in from..Len(parts) : isHexString(parts[i])}
        IN IF hs = {} THEN 0 ELSE CHOOSE i \in hs : \A j \in hs : j <= i
      nameTo(first, h) == IF h = 0 THEN "" ELSE Join(SubSeq(parts, first, h - 1), "-")
  IN IF targetKind = "IngressRoute" /\ Len(parts) >= 2
     THEN [namespace |-> parts[1], targetName |-> nameTo(2, hashAt(2)),
           targetKind |-> targetKind]
     ELSE IF targetKind = "Ingress" /\ Len(parts) >= 3
     THEN [namespace |-> parts[2], targetName |-> nameTo(3, hashAt(3)),
           targetKind |-> targetKind]
     ELSE [namespace |-> "", targetName |-> "", targetKind |-> targetKind]

\* Router names of the access log lines.
Routers == {"websecure-apps-web-a457d08d5820@kubernetes",
            "apps-web-a457d08d5820@kubernetescrd",
            "websecure-apps-web-example-com@kubernetes",
            "websecure-other-web-a457d08d5820@kubernetes",
            "apps-web-a457d08d5820@file"}

\* namespace, targetName, targetKind := parseRouterName(routerName), for the
\* router names of the lines.
Decoded == [r \in Routers |-> parseRouterName(r)]

\* regexp.MatchString for a literal pattern, anchored at the start by ^.
MatchString(re, s) ==
  IF Len(re) > 0 /\ SubSeq(re, 1, 1) = "^"
  THEN Len(s) >= Len(re) - 1 /\ SubSeq(s, 1, Len(re) - 1) = SubSeq(re, 2, Len(re))
  ELSE \E i \in 1..(Len(s) + 1) :
         i + Len(re) - 1 <= Len(s) /\ SubSeq(s, i, i + Len(re) - 1) = re

\* Filters that let a whitelisted path through before looking at the ignore list.
ApplyWhitelistFirst(RequestPath, runtimeConfig) ==
  \/ \E i \in 1..Len(runtimeConfig.WhitelistRegex) :
       MatchString(runtimeConfig.WhitelistRegex[i], RequestPath)
  \/ /\ Len(runtimeConfig.WhitelistRegex) = 0
     /\ ~\E i \in 1..Len(runtimeConfig.IgnoredRegex) :
          MatchString(runtimeConfig.IgnoredRegex[i], RequestPath)

ApplyOperatorConfigToLog(RequestPath, runtimeConfig) ==
  IF \E i \in 1..Len(runtimeConfig.IgnoredRegex) :
       MatchString(runtimeConfig.IgnoredRegex[i], RequestPath)
  THEN FALSE
  ELSE IF Len(runtimeConfig.WhitelistRegex) > 0
  THEN \E i \in 1..Len(runtimeConfig.WhitelistRegex) :
         MatchString(runtimeConfig.WhitelistRegex[i], RequestPath)
  ELSE TRUE

\* The RuntimeConfig a reconcile at time now builds for an enabled object
\* with the default target.
NewRuntimeConfig(whitelist, ignored, now) ==
  [Key |-> ConfigKey(ObjNamespace, TargetName), Namespace |-> ObjNamespace,
   TargetName |-> TargetName, TargetKind |-> "Ingress",
   WhitelistRegex |-> whitelist, IgnoredRegex |-> ignored,
   URLPatterns |-> << >>, Enabled |-> TRUE, LastUpdated |-> now]

\* The filters of the configurations handed to UpdateConfig.
Filters == {[whitelist |-> << >>, ignored |-> << >>],
            [whitelist |-> << "^/api/" >>, ignored |-> << >>],
            [whitelist |-> << "^/api/" >>, ignored |-> << "^/api/health" >>]}

\* cm.configs[key] with its ok result: NoConfig when the key is absent.
Lookup(cfgs, key) == IF key \in DOMAIN cfgs THEN cfgs[key] ELSE NoConfig

\* The map entry while an assignment or a delete of the key is under way.
InFlux == [Key |-> "", Enabled |-> TRUE]

\* What the key holds once UpdateConfig(config) has returned.
Stored(config) == IF config.Enabled THEN config ELSE NoConfig

\* GetConfig is between its call and its return.
InGetConfig == proc.pc \in {"rlock", "read", "runlock"}

\* The entries the key holds from now on: the stored one and, with an
\* UpdateConfig of the key under way, the one it stores.
Current(key) ==
  IF updater.pc # "idle" /\ updater.config.Key = key
  THEN {updater.old, Stored(updater.config)}
  ELSE {Lookup(configs, key)}

\* The reconciler calls UpdateConfig(config).
UpdateConfigCall(config) ==
  /\ mode = "gate"
  /\ updater.pc = "idle"
  /\ clock < MaxStoreUpdates
  /\ clock' = clock + 1
  /\ updater' = [pc |-> "lock", config |-> config, old |-> Lookup(configs, config.Key)]
  /\ proc' = IF InGetConfig /\ proc.key = config.Key
             THEN [proc EXCEPT !.allowed = @ \cup {Stored(config)}]
             ELSE proc
  /\ UNCHANGED << objects, targets, configs, queue, edits, cmMu, stats, plVars, auxVars >>

\* cm.mu.Lock()
CanLock == ~cmMu.writer /\ cmMu.readers = 0

UpdateConfigLock ==
  /\ mode = "gate"
  /\ updater.pc = "lock"
  /\ CanLock
  /\ cmMu' = [cmMu EXCEPT !.writer = TRUE]
  /\ updater' = [updater EXCEPT !.pc = "assign"]
  /\ UNCHANGED << objects, targets, configs, queue, edits, clock, proc, stats, plVars, auxVars >>

\* delete(cm.configs, key) or cm.configs[key] = config begins ...
UpdateConfigAssign ==
  /\ mode = "gate"
  /\ updater.pc = "assign"
  /\ configs' = [configs EXCEPT ![updater.config.Key] = InFlux]
  /\ updater' = [updater EXCEPT !.pc = "assigned"]
  /\ UNCHANGED << objects, targets, queue, edits, clock, cmMu, proc, stats, plVars, auxVars >>

\* ... and ends.
UpdateConfigAssigned ==
  /\ mode = "gate"
  /\ updater.pc = "assigned"
  /\ configs' = UpdateConfig([configs EXCEPT ![updater.config.Key] = updater.old],
                             updater.config)
  /\ updater' = [updater EXCEPT !.pc = "unlock"]
  /\ UNCHANGED << objects, targets, queue, edits, clock, cmMu, proc, stats, plVars, auxVars >>

\* defer cm.mu.Unlock(): UpdateConfig returns.
UpdateConfigUnlock ==
  /\ mode = "gate"
  /\ updater.pc = "unlock"
  /\ cmMu' = [cmMu EXCEPT !.writer = FALSE]
  /\ updater' = [pc |-> "idle", config |-> NoConfig, old |-> NoConfig]
  /\ UNCHANGED << objects, targets, configs, queue, edits, clock, proc, stats, plVars, auxVars >>

\* ProcessLogs has parsed a line; ShouldProcessRouter decodes its router
\* name and, the identity complete, calls GetConfig.
ProcessLine(routerName, path) ==
  /\ mode = "gate"
  /\ proc.pc = "idle"
  /\ proc.n < MaxGateLines
  /\ LET id == Decoded[routerName]
         configKey == ConfigKey(id.namespace, id.targetName)
     IN proc' = IF id.namespace = "" \/ id.targetName = ""
                THEN [pc |-> "idle", n |-> proc.n + 1, key |-> "", kind |-> "",
                      path |-> "", got |-> NoConfig, allowed |-> {}]
                ELSE [pc |-> "rlock", n |-> proc.n + 1, key |-> configKey,
                      kind |-> id.targetKind, path |-> path, got |-> NoConfig,
                      allowed |-> Current(configKey)]
  /\ UNCHANGED << objects, targets, configs, queue, edits, clock, cmMu, updater, stats, plVars, auxVars >>

\* A reader that does not wait for the writer.
CanRLockAlways == TRUE

\* cm.mu.RLock()
CanRLock == ~cmMu.writer

GetConfigRLock ==
  /\ mode = "gate"
  /\ proc.pc = "rlock"
  /\ CanRLock
  /\ cmMu' = [cmMu EXCEPT !.readers = @ + 1]
  /\ proc' = [proc EXCEPT !.pc = "read"]
  /\ UNCHANGED << objects, targets, configs, queue, edits, clock, updater, stats, plVars, auxVars >>

\* config, ok := cm.configs[key]
GetConfigRead ==
  /\ mode = "gate"
  /\ proc.pc = "read"
  /\ proc' = [proc EXCEPT !.pc = "runlock", !.got = Lookup(configs, proc.key)]
  /\ UNCHANGED << objects, targets, configs, queue, edits, clock, cmMu, updater, stats, plVars, auxVars >>

\* defer cm.mu.RUnlock(): GetConfig returns.
GetConfigRUnlock ==
  /\ mode = "gate"
  /\ proc.pc = "runlock"
  /\ cmMu' = [cmMu EXCEPT !.readers = @ - 1]
  /\ proc' = [proc EXCEPT !.pc = "gate"]
  /\ UNCHANGED << objects, targets, configs, queue, edits, clock, updater, stats, plVars, auxVars >>

\* A gate that does not compare the kinds.
ShouldProcessRouterAnyKind == proc.got # NoConfig /\ proc.got.Enabled

\* The entry GetConfig returned lets the line through: it exists, is enabled
\* and is of the decoded kind.
ShouldProcessRouter == /\ proc.got # NoConfig
                       /\ proc.got.Enabled
                       /\ proc.kind = proc.got.TargetKind

\* The rest of ShouldProcessRouter, the filters and updateMetrics.
ProcessLineEnd ==
  /\ mode = "gate"
  /\ proc.pc = "gate"
  /\ stats' = IF ShouldProcessRouter /\ ApplyOperatorConfigToLog(proc.path, proc.got)
              THEN [stats EXCEPT ![proc.path] = @ + 1]
              ELSE stats
  /\ proc' = [proc EXCEPT !.pc = "idle", !.allowed = {}]
  /\ UNCHANGED << objects, targets, configs, queue, edits, clock, cmMu, updater, plVars, auxVars >>

InitGate ==
  /\ mode = "gate"
  /\ replicas = 0
  /\ InitCommon
  /\ \A p \in Pods : podPhase[p] = "absent"
  /\ InitStore
  /\ targets = {"Ingress"}
  /\ InitAux
  /\ parseIn = NoParseIn
  /\ retry = NoRetry
  /\ topNPaths = DefaultTopNPaths

NextGate ==
  \/ \E f \in Filters : UpdateConfigCall(NewRuntimeConfig(f.whitelist, f.ignored, clock))
  \/ \E k \in Keys : UpdateConfigCall([Key |-> k, Enabled |-> FALSE])
  \/ UpdateConfigLock
  \/ UpdateConfigAssign
  \/ UpdateConfigAssigned
  \/ UpdateConfigUnlock
  \/ \E r \in Routers, p \in Paths : ProcessLine(r, p)
  \/ GetConfigRLock
  \/ GetConfigRead
  \/ GetConfigRUnlock
  \/ ProcessLineEnd

SpecGate == InitGate /\ [][NextGate]_vars

\* C18: the entry a GetConfig call has read is the entry the key held when
\* the call began or the entry an UpdateConfig under way during the call
\* stores, whole: after an UpdateConfig has returned and with none under way,
\* the entry (or the absence) that update left.
C18_GetConfigAtomic ==
  proc.pc \in {"runlock", "gate"} => proc.got \in proc.allowed

\* A GetConfig call returned the entry an UpdateConfig stored while the call
\* was waiting.
C18_ReadDuringUpdate ==
  /\ proc.pc = "gate"
  /\ Cardinality(proc.allowed) = 2
  /\ proc.got # NoConfig
  /\ updater.pc = "idle"


\* The line in hand is past the four checks of the gate.
PastGate ==
  /\ proc.key # ""
  /\ proc.got # NoConfig
  /\ proc.got.TargetKind = proc.kind
  /\ proc.got.Enabled

\* Lines handed to updateMetrics so far.
RECURSIVE CountedIn(_)
CountedIn(ps) ==
  IF ps = {} THEN 0
  ELSE LET p == CHOOSE q \in ps : TRUE IN stats[p] + CountedIn(ps \ {p})

Counted == CountedIn(Paths)

\* C19: in operator mode a line whose router name decodes to an empty
\* namespace or target name is dropped without a store lookup; a line for
\* whose key GetConfig returned no entry, an entry of another kind or a
\* disabled entry is dropped; a dropped line leaves every count as it was, and
\* a count changes only for a line that is past all four checks.
C19_GateDropsLine ==
  [][/\ \A r \in Routers, p \in Paths :
          ProcessLine(r, p) =>
            /\ stats' = stats
            /\ (Decoded[r].namespace = "" \/ Decoded[r].targetName = "")
                 => proc'.pc = "idle"
     /\ (ProcessLineEnd /\ ~PastGate) => stats' = stats
     /\ stats' # stats => (proc.pc = "gate" /\ PastGate)]_vars

\* A line was counted, and the line after it was dropped at the gate because
\* the stored entry is of another kind than the router's.
C19_DroppedAfterCounted ==
  /\ proc.pc = "idle"
  /\ proc.n = 2
  /\ Counted = 1
  /\ proc.got # NoConfig
  /\ proc.got.TargetKind # proc.kind

\* Some pattern of the list matches the path.
AnyMatch(res, path) == \E i \in 1..Len(res) : MatchString(res[i], path)

\* C20: a line past the gate whose path matches an ignore pattern is dropped,
\* a whitelist match or not; otherwise, with a whitelist that is not empty and
\* has no match, it is dropped; otherwise it is counted, once, under its path.
\* A dropped line leaves every count as it was.
C20_IgnoreBeforeWhitelist ==
  [][(ProcessLineEnd /\ PastGate) =>
       IF AnyMatch(proc.got.IgnoredRegex, proc.path)
       THEN stats' = stats
       ELSE IF Len(proc.got.WhitelistRegex) > 0
               /\ ~AnyMatch(proc.got.WhitelistRegex, proc.path)
       THEN stats' = stats
       ELSE stats' = [stats EXCEPT ![proc.path] = @ + 1]]_vars

\* The lines of the run are taken, the last of them past the gate with a
\* path that an ignore pattern and a whitelist pattern both match, and
\* nothing is counted.
C20_IgnoredLinesDropped ==
  /\ proc.pc = "idle"
  /\ proc.n = 2
  /\ PastGate
  /\ AnyMatch(proc.got.IgnoredRegex, proc.path)
  /\ AnyMatch(proc.got.WhitelistRegex, proc.path)
  /\ Counted = 0


\* ---------------------------------------- endpoint statistics and top paths
\* The label names each metric vector is declared with.
LabelNames ==
  [totalRequests |-> << "request_method", "response_code", "app", "namespace", "target_kind" >>,
   requestDuration |-> << "request_method", "response_code", "app", "namespace", "target_kind" >>,
   endpointRequests |-> << "namespace", "ingress", "request_path", "request_method", "response_code" >>,
   endpointDuration |-> << "namespace", "ingress", "request_path", "request_method", "response_code" >>,
   endpointAvgLatency |-> << "namespace", "ingress", "request_path" >>,
   endpointMaxLatency |-> << "namespace", "ingress", "request_path" >>,
   endpointErrorRate |-> << "namespace", "ingress", "request_path" >>,
   endpointClientErrorRate |-> << "namespace", "ingress", "request_path" >>,
   endpointServerErrorRate |-> << "namespace", "ingress", "request_path" >>]

\* vec.WithLabelValues(lvs...) returns a metric; it panics when the number of
\* values is not the number of label names.
WithLabelValues(vec, lvs) == Len(lvs) = Len(LabelNames[vec])

\* Status codes and durations (ms) of the records.
Statuses == {200, 404, 500}
Durations == {100, 300}
Records == {r \in [service : Services, endpoint : Endpoints, status : Statuses,
                   duration : Durations] : << r.service, r.endpoint >> \in RecordKeys}

\* updateMetrics has returned, or has panicked.
Finished(pc) ==
  [pc |-> pc, n |-> um.n, rec |-> NoRecord, before |-> [k \in EndpointKeys |-> NoStat]]

KeyOfRecord(rec) == EndpointKey(rec.service, rec.endpoint)

\* updateMetrics, from the key of the record on: the call.
StatsCall(rec) ==
  /\ mode = "stats"
  /\ um.pc = "idle"
  /\ um.n < MaxRecords
  /\ um' = [pc |-> "ensure", n |-> um.n + 1, rec |-> rec, before |-> endpointStats]
  /\ UNCHANGED << endpointStats, insertOrder, topNPaths, topPathsPerService,
                  topPathsMutex, topComplete, avgLatencySeries, tp,
                  objects, targets, configs, queue, edits, clock, gateVars, plVars, mainVars, parseVars, retryVars >>

\* endpointStats[key] = &EndpointStat{} when the key is new.
StatsEnsure ==
  /\ mode = "stats"
  /\ um.pc = "ensure"
  /\ LET key == KeyOfRecord(um.rec)
     IN IF endpointStats[key].present
        THEN UNCHANGED << endpointStats, insertOrder >>
        ELSE /\ endpointStats' = [endpointStats EXCEPT ![key].present = TRUE]
             /\ insertOrder' = Append(insertOrder, key)
  /\ um' = [um EXCEPT !.pc = "count"]
  /\ UNCHANGED << topNPaths, topPathsPerService,
                  topPathsMutex, topComplete, avgLatencySeries, tp,
                  objects, targets, configs, queue, edits, clock, gateVars, plVars, mainVars, parseVars, retryVars >>

\* Lock; stat.TotalRequests++; stat.TotalDuration += duration; Unlock.
StatsCount ==
  /\ mode = "stats"
  /\ um.pc = "count"
  /\ endpointStats' = [endpointStats EXCEPT
                         ![KeyOfRecord(um.rec)].TotalRequests = @ + 1,
                         ![KeyOfRecord(um.rec)].TotalDuration = @ + um.rec.duration]
  /\ um' = [um EXCEPT !.pc = IF um.rec.status >= 400 THEN "error" ELSE "top"]
  /\ UNCHANGED << insertOrder, topNPaths, topPathsPerService,
                  topPathsMutex, topComplete, avgLatencySeries, tp,
                  objects, targets, configs, queue, edits, clock, gateVars, plVars, mainVars, parseVars, retryVars >>

\* Lock; stat.ErrorCount++; Unlock.
StatsError ==
  /\ mode = "stats"
  /\ um.pc = "error"
  /\ endpointStats' = [endpointStats EXCEPT ![KeyOfRecord(um.rec)].ErrorCount = @ + 1]
  /\ um' = [um EXCEPT !.pc = "errorRate"]
  /\ UNCHANGED << insertOrder, topNPaths, topPathsPerService,
                  topPathsMutex, topComplete, avgLatencySeries, tp,
                  objects, targets, configs, queue, edits, clock, gateVars, plVars, mainVars, parseVars, retryVars >>

\* The error-rate gauge, then the client or server count and its gauge.
StatsErrorRate ==
  /\ mode = "stats"
  /\ um.pc = "errorRate"
  /\ LET key == KeyOfRecord(um.rec)
         lvs == << um.rec.service, um.rec.endpoint >>
         class == IF um.rec.status >= 500 THEN "endpointServerErrorRate"
                  ELSE "endpointClientErrorRate"
     IN IF ~WithLabelValues("endpointErrorRate", lvs)
        THEN /\ um' = Finished("panicked")
             /\ UNCHANGED endpointStats
        ELSE /\ endpointStats' =
                  IF um.rec.status >= 500
                  THEN [endpointStats EXCEPT ![key].ServerErrorCount = @ + 1]
                  ELSE [endpointStats EXCEPT ![key].ClientErrorCount = @ + 1]
             /\ um' = IF WithLabelValues(class, lvs)
                      THEN [um EXCEPT !.pc = "top"] ELSE Finished("panicked")
  /\ UNCHANGED << insertOrder, topNPaths, topPathsPerService,
                  topPathsMutex, topComplete, avgLatencySeries, tp,
                  objects, targets, configs, queue, edits, clock, gateVars, plVars, mainVars, parseVars, retryVars >>

\* A reader that does not wait for updateTopPaths.
CanRLockTopAlways == TRUE

\* topPathsMutex.RLock()
CanRLockTop == ~topPathsMutex

\* isTopPath := topPathsPerService[service][key], under the read lock.
StatsTop ==
  /\ mode = "stats"
  /\ um.pc = "top"
  /\ CanRLockTop
  /\ um' = IF KeyOfRecord(um.rec) \in topPathsPerService[um.rec.service]
            THEN [um EXCEPT !.pc = "emit"] ELSE Finished("idle")
  /\ UNCHANGED << endpointStats, insertOrder, topNPaths, topPathsPerService,
                  topPathsMutex, topComplete, avgLatencySeries, tp,
                  objects, targets, configs, queue, edits, clock, gateVars, plVars, mainVars, parseVars, retryVars >>

\* A gauge update that takes the two label values it is given.
StatsEmitUnchecked ==
  /\ mode = "stats"
  /\ um.pc = "emit"
  /\ avgLatencySeries' = avgLatencySeries \cup {KeyOfRecord(um.rec)}
  /\ um' = Finished("idle")
  /\ UNCHANGED << endpointStats, insertOrder, topNPaths, topPathsPerService,
                  topPathsMutex, topComplete, tp,
                  objects, targets, configs, queue, edits, clock, gateVars, plVars, mainVars, parseVars, retryVars >>

\* The per-endpoint series of a top path.
StatsEmit ==
  /\ mode = "stats"
  /\ um.pc = "emit"
  /\ IF WithLabelValues("endpointAvgLatency", << um.rec.service, um.rec.endpoint >>)
     THEN /\ avgLatencySeries' = avgLatencySeries \cup {KeyOfRecord(um.rec)}
          /\ um' = Finished("idle")
     ELSE /\ um' = Finished("panicked")
          /\ UNCHANGED avgLatencySeries
  /\ UNCHANGED << endpointStats, insertOrder, topNPaths, topPathsPerService,
                  topPathsMutex, topComplete, tp,
                  objects, targets, configs, queue, edits, clock, gateVars, plVars, mainVars, parseVars, retryVars >>

\* a's average latency is higher than b's.
Higher(a, b) == a.TotalDuration * b.TotalRequests > b.TotalDuration * a.TotalRequests

\* updateTopPaths: the paths with requests, read under the statistics lock.
TopSnapshot ==
  /\ mode = "stats"
  /\ tp.pc = "idle"
  /\ tp.n < MaxRecomputes
  /\ tp' = [pc |-> "lock", n |-> tp.n + 1,
            paths |-> [k \in {j \in EndpointKeys : endpointStats[j].TotalRequests > 0}
                         |-> endpointStats[k]],
            todo |-> {}]
  /\ UNCHANGED << endpointStats, insertOrder, topNPaths, topPathsPerService,
                  topPathsMutex, topComplete, avgLatencySeries, um,
                  objects, targets, configs, queue, edits, clock, gateVars, plVars, mainVars, parseVars, retryVars >>

\* topPathsMutex.Lock()
TopLock ==
  /\ mode = "stats"
  /\ tp.pc = "lock"
  /\ ~topPathsMutex
  /\ topPathsMutex' = TRUE
  /\ tp' = [tp EXCEPT !.pc = "clear"]
  /\ UNCHANGED << endpointStats, insertOrder, topNPaths, topPathsPerService,
                  topComplete, avgLatencySeries, um,
                  objects, targets, configs, queue, edits, clock, gateVars, plVars, mainVars, parseVars, retryVars >>

\* topPathsPerService = make(map[string]map[string]bool)
TopClear ==
  /\ mode = "stats"
  /\ tp.pc = "clear"
  /\ topPathsPerService' = [sv \in Services |-> {}]
  /\ tp' = [tp EXCEPT !.pc = "fill",
                      !.todo = {ServiceOf[k] : k \in DOMAIN tp.paths}]
  /\ UNCHANGED << endpointStats, insertOrder, topNPaths,
                  topPathsMutex, topComplete, avgLatencySeries, um,
                  objects, targets, configs, queue, edits, clock, gateVars, plVars, mainVars, parseVars, retryVars >>

\* The sets sort.Slice and the first topNPaths places can give for a service
\* out of the paths read: the paths came in map order and the sort keeps no
\* order among equals.
TopChoicesOf(paths, service) ==
  LET ks == {k \in DOMAIN paths : ServiceOf[k] = service}
      limit == IF topNPaths > Cardinality(ks) THEN Cardinality(ks) ELSE topNPaths
  IN {c \in SUBSET ks :
        /\ Cardinality(c) = limit
        /\ \A a \in c, b \in ks \ c : ~Higher(paths[b], paths[a])}

TopChoices(service) == TopChoicesOf(tp.paths, service)

\* One round of the loop over servicePaths.
TopFill(service, chosen) ==
  /\ mode = "stats"
  /\ tp.pc = "fill"
  /\ service \in tp.todo
  /\ chosen \in TopChoices(service)
  /\ topPathsPerService' = [topPathsPerService EXCEPT ![service] = chosen]
  /\ tp' = [tp EXCEPT !.todo = @ \ {service}]
  /\ UNCHANGED << endpointStats, insertOrder, topNPaths,
                  topPathsMutex, topComplete, avgLatencySeries, um,
                  objects, targets, configs, queue, edits, clock, gateVars, plVars, mainVars, parseVars, retryVars >>

\* defer topPathsMutex.Unlock(): updateTopPaths returns.
TopUnlock ==
  /\ mode = "stats"
  /\ tp.pc = "fill"
  /\ tp.todo = {}
  /\ topPathsMutex' = FALSE
  /\ topComplete' = topPathsPerService
  /\ tp' = [pc |-> "idle", n |-> tp.n, paths |-> << >>, todo |-> {}]
  /\ UNCHANGED << endpointStats, insertOrder, topNPaths, topPathsPerService,
                  avgLatencySeries, um,
                  objects, targets, configs, queue, edits, clock, gateVars, plVars, mainVars, parseVars, retryVars >>

InitStats ==
  /\ mode = "stats"
  /\ replicas = 0
  /\ InitCommon
  /\ \A p \in Pods : podPhase[p] = "absent"
  /\ InitStore
  /\ targets = {}
  /\ InitAux
  /\ parseIn = NoParseIn
  /\ retry = NoRetry
  /\ topNPaths \in 1..MaxTopN

NextStats ==
  \/ \E rec \in Records : StatsCall(rec)
  \/ StatsEnsure
  \/ StatsCount
  \/ StatsError
  \/ StatsErrorRate
  \/ StatsTop
  \/ StatsEmit
  \/ TopSnapshot
  \/ TopLock
  \/ TopClear
  \/ \E sv \in Services : \E c \in SUBSET EndpointKeys : TopFill(sv, c)
  \/ TopUnlock

SpecStats == InitStats /\ [][NextStats]_vars


\* ------------------------------------------------------ the whole program
restVars == << objects, targets, configs, queue, edits, clock, gateVars, plVars,
              parseVars, retryVars >>

\* The process has neither panicked nor exited.
Alive == mainPc \notin {"panicked", "exited"}

\* UpdateHealthStatus(component, status, err): the overall status it leaves.
UpdateHealthStatus(err) ==
  IF err THEN "error" ELSE IF healthStatus # "error" THEN "healthy" ELSE healthStatus

\* StartTopPathsUpdater up to the go statement: the ticker is made and the
\* goroutine that ranges over ticker.C is started.
StartTopPathsUpdater ==
  /\ mode = "main"
  /\ mainPc = "start"
  /\ mainPc' = "updater"
  /\ topTicker' = [state |-> "running", pending |-> FALSE]
  /\ UNCHANGED << mainLines, cleanerTicker, servePc, healthStatus, sinceLastProcessed,
                  response, healthRequests, coarseRequests, mxVars, restVars >>

\* StartTopPathsUpdater returns: the deferred ticker.Stop() runs. A tick
\* already in ticker.C stays there.
StartTopPathsUpdaterReturn ==
  /\ mode = "main"
  /\ mainPc = "updater"
  /\ mainPc' = "serve"
  /\ topTicker' = [topTicker EXCEPT !.state = "stopped"]
  /\ UNCHANGED << mainLines, cleanerTicker, servePc, healthStatus, sinceLastProcessed,
                  response, healthRequests, coarseRequests, mxVars, restVars >>

\* The interval has passed on a running ticker: a tick is put into ticker.C.
TopTick ==
  /\ mode = "main"
  /\ Alive
  /\ topTicker.state = "running"
  /\ ~topTicker.pending
  /\ tp.n < MaxRecomputes
  /\ topTicker' = [topTicker EXCEPT !.pending = TRUE]
  /\ UNCHANGED << mainPc, mainLines, cleanerTicker, servePc, healthStatus,
                  sinceLastProcessed, response, healthRequests, coarseRequests,
                  mxVars, restVars >>

\* The updater goroutine receives a tick and calls updateTopPaths.
UpdaterRun(chosen) ==
  /\ mode = "main"
  /\ Alive
  /\ topTicker.pending
  /\ LET paths == [k \in {j \in EndpointKeys : endpointStats[j].TotalRequests > 0}
                     |-> endpointStats[k]]
     IN \A sv \in Services : chosen[sv] \in TopChoicesOf(paths, sv)
  /\ topTicker' = [topTicker EXCEPT !.pending = FALSE]
  /\ topPathsPerService' = chosen
  /\ topComplete' = chosen
  /\ tp' = [tp EXCEPT !.n = tp.n + 1]
  /\ UNCHANGED << mainPc, mainLines, cleanerTicker, servePc, healthStatus,
                  sinceLastProcessed, response, healthRequests, coarseRequests,
                  endpointStats, insertOrder, topNPaths, topPathsMutex,
                  avgLatencySeries, um, restVars >>

\* go func() { ServeProm(port) }()
GoServeProm ==
  /\ mode = "main"
  /\ mainPc = "serve"
  /\ mainPc' = "source"
  /\ servePc' = "called"
  /\ UNCHANGED << mainLines, topTicker, cleanerTicker, healthStatus, sinceLastProcessed,
                  response, healthRequests, coarseRequests, mxVars, restVars >>

\* ServeProm: the handlers are registered, UpdateHealthStatus("http_server",
\* "running", nil), and the server goroutine is started.
ServePromStatus ==
  /\ mode = "main"
  /\ Alive
  /\ servePc = "called"
  /\ servePc' = "started"
  /\ healthStatus' = UpdateHealthStatus(FALSE)
  /\ UNCHANGED << mainPc, mainLines, topTicker, cleanerTicker, sinceLastProcessed,
                  response, healthRequests, coarseRequests, mxVars, restVars >>

\* ServeProm's select: an error of ListenAndServe is returned, otherwise
\* SetServiceReady().
ServePromReady(err) ==
  /\ mode = "main"
  /\ Alive
  /\ servePc = "started"
  /\ IF err
     THEN servePc' = "failed" /\ UNCHANGED healthStatus
     ELSE servePc' = "listening" /\ healthStatus' = "healthy"
  /\ UNCHANGED << mainPc, mainLines, topTicker, cleanerTicker, sinceLastProcessed,
                  response, healthRequests, coarseRequests, mxVars, restVars >>

\* CreateLogSource and, when it fails, UpdateHealthStatus("log_source", "error", err).
CreateLogSource(err) ==
  /\ mode = "main"
  /\ mainPc = "source"
  /\ mainPc' = IF err THEN "failing" ELSE "status"
  /\ healthStatus' = IF err THEN UpdateHealthStatus(TRUE) ELSE healthStatus
  /\ UNCHANGED << mainLines, topTicker, cleanerTicker, servePc, sinceLastProcessed,
                  response, healthRequests, coarseRequests, mxVars, restVars >>

\* os.Exit(1)
Exit ==
  /\ mode = "main"
  /\ mainPc = "failing"
  /\ mainPc' = "exited"
  /\ UNCHANGED << mainLines, topTicker, cleanerTicker, servePc, healthStatus,
                  sinceLastProcessed, response, healthRequests, coarseRequests,
                  mxVars, restVars >>

\* UpdateHealthStatus("log_processor", "running", nil), then ProcessLogs.
MarkRunning ==
  /\ mode = "main"
  /\ mainPc = "status"
  /\ mainPc' = "running"
  /\ healthStatus' = UpdateHealthStatus(FALSE)
  /\ UNCHANGED << mainLines, topTicker, cleanerTicker, servePc, sinceLastProcessed,
                  response, healthRequests, coarseRequests, mxVars, restVars >>

\* One round of ProcessLogs' loop: UpdateLastProcessedTime(); a line that
\* is an error, does not parse or is filtered out is skipped, a counted one
\* goes to updateMetrics, whose first statement addresses totalRequests with
\* method, code and service. The statistics steps that follow it are those
\* of SpecStats.
MainLine(rec, counted) ==
  /\ mode = "main"
  /\ mainPc = "running"
  /\ mainLines < MaxMainLines
  /\ mainLines' = mainLines + 1
  /\ sinceLastProcessed' = 0
  /\ IF ~counted
     THEN UNCHANGED << mainPc, coarseRequests >>
     ELSE IF WithLabelValues("totalRequests",
                             << "GET", ToString(rec.status), rec.service >>)
          THEN coarseRequests' = coarseRequests + 1 /\ UNCHANGED mainPc
          ELSE mainPc' = "panicked" /\ UNCHANGED coarseRequests
  /\ UNCHANGED << topTicker, cleanerTicker, servePc, healthStatus,
                  response, healthRequests, mxVars, restVars >>

\* The channel of lines is closed: ProcessLogs returns, the deferred Close
\* reports "close_error" or "closed", and main returns.
MainReturn(err) ==
  /\ mode = "main"
  /\ mainPc = "running"
  /\ mainPc' = "exited"
  /\ healthStatus' = UpdateHealthStatus(err)
  /\ UNCHANGED << mainLines, topTicker, cleanerTicker, servePc, sinceLastProcessed,
                  response, healthRequests, coarseRequests, mxVars, restVars >>

\* A minute passes. Past MaxSince minutes a further minute changes nothing the
\* program reads: every age above StaleMinutes is stale.
MinutePasses ==
  /\ mode = "main"
  /\ Alive
  /\ sinceLastProcessed < MaxSince
  /\ sinceLastProcessed' = sinceLastProcessed + 1
  /\ UNCHANGED << mainPc, mainLines, topTicker, cleanerTicker, servePc, healthStatus,
                  response, healthRequests, coarseRequests, mxVars, restVars >>

\* 5*time.Minute
StaleMinutes == 5

\* A check that calls the processing stale from five minutes on.
IsStaleFrom(since) == since >= StaleMinutes

\* time.Since(lastProcessed) > 5*time.Minute
IsStale(since) == since > StaleMinutes

\* HealthHandler: the answer to GET /health.
HealthHandler ==
  /\ mode = "main"
  /\ Alive
  /\ servePc \in {"started", "listening"}
  /\ healthRequests < MaxHealthRequests
  /\ healthRequests' = healthRequests + 1
  /\ LET stale == IsStale(sinceLastProcessed)
         status == IF stale /\ healthStatus = "healthy" THEN "degraded" ELSE healthStatus
     IN response' = [code |-> IF status # "healthy" THEN 503 ELSE 200,
                     status |-> status,
                     log_processing |-> IF stale THEN "stale" ELSE "active"]
  /\ UNCHANGED << mainPc, mainLines, topTicker, cleanerTicker, servePc, healthStatus,
                  sinceLastProcessed, coarseRequests, mxVars, restVars >>

\* main after LoadConfig, with the package variables as init() leaves them.
InitMain ==
  /\ mode = "main"
  /\ replicas = 0
  /\ InitCommon
  /\ \A p \in Pods : podPhase[p] = "absent"
  /\ InitStore
  /\ targets = {}
  /\ InitAux
  /\ parseIn = NoParseIn
  /\ retry = NoRetry
  /\ topNPaths \in 1..MaxTopN

NextMain ==
  \/ StartTopPathsUpdater
  \/ StartTopPathsUpdaterReturn
  \/ TopTick
  \/ \E chosen \in [Services -> SUBSET EndpointKeys] : UpdaterRun(chosen)
  \/ GoServeProm
  \/ ServePromStatus
  \/ \E err \in BOOLEAN : ServePromReady(err)
  \/ \E err \in BOOLEAN : CreateLogSource(err)
  \/ Exit
  \/ MarkRunning
  \/ \E rec \in Records, counted \in BOOLEAN : MainLine(rec, counted)
  \/ \E err \in BOOLEAN : MainReturn(err)
  \/ MinutePasses
  \/ HealthHandler

SpecMain == InitMain /\ [][NextMain]_vars

\* The scheduler runs every goroutine that can take a step, and a running
\* ticker delivers its ticks; lines, requests and the end of the input come
\* from outside.
SpecMainFair ==
  /\ SpecMain
  /\ WF_vars(StartTopPathsUpdater)
  /\ WF_vars(StartTopPathsUpdaterReturn)
  /\ WF_vars(TopTick)
  /\ WF_vars(\E chosen \in [Services -> SUBSET EndpointKeys] : UpdaterRun(chosen))
  /\ WF_vars(GoServeProm)
  /\ WF_vars(ServePromStatus)
  /\ WF_vars(\E err \in BOOLEAN : ServePromReady(err))
  /\ WF_vars(\E err \in BOOLEAN : CreateLogSource(err))
  /\ WF_vars(Exit)
  /\ WF_vars(MarkRunning)
  /\ WF_vars(MinutePasses)

RecordApplied ==
  um.pc \notin {"idle", "panicked"} /\ um'.pc \in {"idle", "panicked"}

\* C22: the application of one record leaves its EndpointStat with
\* TotalRequests one higher, ErrorCount one higher for a status of 400 or
\* more and unchanged otherwise, ClientErrorCount one higher for a status of
\* 400 to 499, ServerErrorCount one higher for a status of 500 or more, and
\* every other EndpointStat as it was.
C22_RecordDeltas ==
  [][RecordApplied =>
       LET k == KeyOfRecord(um.rec)
           b == um.before[k]
           a == endpointStats'[k]
           st == um.rec.status
       IN /\ a.TotalRequests = b.TotalRequests + 1
          /\ a.ErrorCount = b.ErrorCount + (IF st >= 400 THEN 1 ELSE 0)
          /\ a.ClientErrorCount = b.ClientErrorCount + (IF st >= 400 /\ st < 500 THEN 1 ELSE 0)
          /\ a.ServerErrorCount = b.ServerErrorCount + (IF st >= 500 THEN 1 ELSE 0)
          /\ \A j \in EndpointKeys \ {k} : endpointStats'[j] = um.before[j]]_vars


\* The place of a key in the order the keys were added to endpointStats.
Pos(k) == Min({i \in 1..Len(insertOrder) : insertOrder[i] = k})

\* The top paths of a service by average latency over the statistics the
\* recomputation read, a path added earlier going before one of equal average.
TopNByInsertion(service) ==
  LET ks == {k \in DOMAIN tp.paths : ServiceOf[k] = service}
      Before(a, b) == \/ Higher(tp.paths[a], tp.paths[b])
                      \/ /\ ~Higher(tp.paths[b], tp.paths[a])
                         /\ Pos(a) < Pos(b)
  IN {k \in ks : Cardinality({j \in ks : Before(j, k)}) < topNPaths}

C25_TopPathsReadWhole ==
  [][StatsTop => topPathsPerService = topComplete]_vars

\* A record of a top path waits for its lookup while a second recomputation
\* has cleared the map and not yet filled it.
C25_ReaderDuringRecompute ==
  /\ um.pc = "top"
  /\ tp.pc = "fill"
  /\ tp.n = 2
  /\ topPathsMutex
  /\ KeyOfRecord(um.rec) \in topComplete[um.rec.service]
  /\ topPathsPerService[um.rec.service] = {}


\* The routers that have statistics.
RoutersSeen == {ServiceOf[k] : k \in {j \in EndpointKeys : endpointStats[j].present}}

UpdaterStarted == topTicker.state # "none"

\* C24: once StartTopPathsUpdater has been called, the top paths are
\* recomputed, unless the process ends first.
C24_RecomputedAfterStart ==
  UpdaterStarted ~> (tp.n > 0 \/ ~Alive)

\* The step in which ProcessLogs hands a counted record to updateMetrics.
MainCounted == \E rec \in Records : MainLine(rec, TRUE)

\* C26: every counted record raises the coarse request counter by one.
C26_CoarseCountedAlways ==
  [][MainCounted => coarseRequests' = coarseRequests + 1]_vars

\* C28: while the program processes lines, the ticker of the metrics cleaner
\* comes to run, unless the process ends first.
C28_MetricsCleanerRuns ==
  (mainPc = "running") ~> (cleanerTicker = "running" \/ ~Alive)

\* C29: no update of a metric panics.
C29_NoMetricPanics == mainPc # "panicked"


\* C30: a request to /health is answered 503 when the status it reports is
\* not "healthy" and 200 otherwise; when the stored status is "healthy" it
\* reports "degraded" exactly when more than five minutes have passed since
\* the last processed line; the stored status and time are left as they were.
C30_HealthAnswer ==
  [][HealthHandler =>
       /\ response'.code = (IF response'.status # "healthy" THEN 503 ELSE 200)
       /\ healthStatus = "healthy" =>
            /\ response'.status \in {"healthy", "degraded"}
            /\ response'.status = "degraded" <=> sinceLastProcessed > StaleMinutes
       /\ healthStatus # "healthy" => response'.status = healthStatus
       /\ healthStatus' = healthStatus
       /\ sinceLastProcessed' = sinceLastProcessed]_vars

\* After a first answer a second request found the stored status "healthy"
\* and the last line more than five minutes old: it was answered "degraded"
\* with 503, and the stored status is still "healthy".
C30_DegradedAnswered ==
  /\ healthRequests = 2
  /\ healthStatus = "healthy"
  /\ sinceLastProcessed > StaleMinutes
  /\ response = [code |-> 503, status |-> "degraded", log_processing |-> "stale"]


\* C31: once ServeProm has returned the error of a failed bind, the program
\* processes no line.
C31_BindFailureIsFatal ==
  [][servePc = "failed" =>
       ~(\E rec \in Records, counted \in BOOLEAN : MainLine(rec, counted))]_vars


\* ------------------------------------------------------------- the parsers
\* A line is kept as its fields, the pieces between runs of white space.
Providers == {"kubernetes", "kubernetescrd", "file"}

\* The parts router names are built from: two words, a hash and a hex part
\* too short for a hash.
RouterParts == {"mahfil", "dev", "a457d08d5820f79b3e08", "a457d08d58"}

\* Parts in a generated router name.
MaxParts == 3

\* Failed attempts of a streamer the model follows.
MaxAttempts == 12

ExampleRouter ==
  "mahfil-dev-mahfil-api-server-ingressroute-http-a457d08d5820f79b3e08@kubernetescrd"

RouterNames ==
  {ExampleRouter} \cup
  {Join(ps, "-") \o "@" \o pr :
     ps \in UNION {[1..n -> RouterParts] : n \in 1..MaxParts}, pr \in Providers}

Quote == "\""

HasPrefix(s, pre) == Len(s) >= Len(pre) /\ SubSeq(s, 1, Len(pre)) = pre

HasSuffix(s, suf) == Len(s) >= Len(suf) /\ SubSeq(s, Len(s) - Len(suf) + 1, Len(s)) = suf

\* strings.Trim(s, cutset): leading and trailing characters of cutset removed.
RECURSIVE Trim(_, _)
Trim(s, cutset) ==
  IF Len(s) = 0 THEN s
  ELSE IF SubSeq(s, 1, 1) \in cutset THEN Trim(SubSeq(s, 2, Len(s)), cutset)
  ELSE IF SubSeq(s, Len(s), Len(s)) \in cutset THEN Trim(SubSeq(s, 1, Len(s) - 1), cutset)
  ELSE s

Digits == {"0", "1", "2", "3", "4", "5", "6", "7", "8", "9"}

DigitValue == "0" :> 0 @@ "1" :> 1 @@ "2" :> 2 @@ "3" :> 3 @@ "4" :> 4 @@
              "5" :> 5 @@ "6" :> 6 @@ "7" :> 7 @@ "8" :> 8 @@ "9" :> 9

\* strconv.Atoi(s) and strconv.ParseFloat(s, 64) on the texts of the model
\* return no error exactly for a string of digits.
IsNumber(s) == Len(s) > 0 /\ \A i \in 1..Len(s) : SubSeq(s, i, i) \in Digits

RECURSIVE Atoi(_)
Atoi(s) ==
  IF Len(s) = 0 THEN 0
  ELSE 10 * Atoi(SubSeq(s, 1, Len(s) - 1)) + DigitValue[SubSeq(s, Len(s), Len(s))]

\* ^\d{1,3}\.\d{1,3}\.\d{1,3}\.\d{1,3} at the start of a field
ipv4Pattern(field) ==
  LET octets == Split(field, ".")
  IN /\ Len(octets) >= 4
     /\ \A i \in 1..3 : IsNumber(octets[i]) /\ Len(octets[i]) <= 3
     /\ Len(octets[4]) > 0 /\ SubSeq(octets[4], 1, 1) \in Digits

\* ^[0-9a-fA-F:]+ at the start of a field
ipv6Pattern(field) ==
  Len(field) > 0 /\
  SubSeq(field, 1, 1) \in HexDigits \cup {"A", "B", "C", "D", "E", "F", ":"}

\* \[\d{2}/[A-Za-z]{3}/\d{4}:\d{2}:\d{2}:\d{2} [\+\-]\d{4}\]: the time stamp
\* takes two fields.
commonLogPattern(fields) ==
  \E i \in 1..(Len(fields) - 1) :
    /\ Len(fields[i]) = 21
    /\ SubSeq(fields[i], 1, 1) = "["
    /\ SubSeq(fields[i], 4, 4) = "/"
    /\ SubSeq(fields[i], 8, 8) = "/"
    /\ Len(fields[i + 1]) = 6
    /\ SubSeq(fields[i + 1], 1, 1) \in {"+", "-"}
    /\ SubSeq(fields[i + 1], 6, 6) = "]"

isAccessLogLine(fields) ==
  /\ Len(fields) > 0
  /\ \/ ipv4Pattern(fields[1])
     \/ ipv6Pattern(fields[1])
     \/ /\ Len(fields) >= 2
        /\ HasPrefix(fields[1], "[") /\ HasSuffix(fields[1], "]") /\ Len(fields[1]) > 2
        /\ ipv4Pattern(fields[2])
     \/ commonLogPattern(fields)

\* "[^"]*" or -
QuotedOrDash(f) ==
  f = "-" \/ (Len(f) >= 2 /\ HasPrefix(f, Quote) /\ HasSuffix(f, Quote))

\* The access log expression matches the fields from position i on.
MatchesAt(fields, i) ==
  /\ Len(fields) >= i + 15
  /\ fields[i + 1] = "-"
  /\ HasPrefix(fields[i + 3], "[") /\ HasSuffix(fields[i + 4], "]")
  /\ HasPrefix(fields[i + 5], Quote)
  /\ HasSuffix(fields[i + 7], Quote)
  /\ HasPrefix(fields[i + 11], Quote) /\ HasSuffix(fields[i + 11], Quote)
  /\ QuotedOrDash(fields[i + 13])
  /\ QuotedOrDash(fields[i + 14])

\* traefikLogConfig{}
EmptyLog ==
  [ClientHost |-> "", RequestMethod |-> "", RequestPath |-> "", OriginStatus |-> 0,
   OriginContentSize |-> 0, RequestCount |-> 0, RouterName |-> "", Duration |-> 0]

\* parseLine: the record and the error it returns, "" for nil.
parseLine(fields) ==
  IF Len(fields) = 0 THEN [log |-> EmptyLog, err |-> "empty line"]
  ELSE IF ~isAccessLogLine(fields) THEN [log |-> EmptyLog, err |-> "not an access log line"]
  ELSE
    LET at == {i \in 1..Len(fields) : MatchesAt(fields, i)}
    IN IF at = {} THEN [log |-> EmptyLog, err |-> "invalid access log format"]
       ELSE
         LET i == Min(at)
             status == fields[i + 8]
             size == fields[i + 9]
             count == fields[i + 12]
             latencyStr == Trim(fields[i + 15], {"m", "s"})
             err1 == IF IsNumber(status) THEN "" ELSE "invalid status code"
             err2 == IF IsNumber(size) THEN err1 ELSE "invalid content size"
             err3 == IF IsNumber(count) THEN err2 ELSE "invalid request count"
             err4 == IF IsNumber(latencyStr) THEN err3 ELSE "invalid duration"
         IN [log |-> [ClientHost |-> fields[i],
                      RequestMethod |-> Trim(fields[i + 5], {Quote}),
                      RequestPath |-> fields[i + 6],
                      OriginStatus |-> IF IsNumber(status) THEN Atoi(status) ELSE 0,
                      OriginContentSize |-> IF IsNumber(size) THEN Atoi(size) ELSE 0,
                      RequestCount |-> IF IsNumber(count) THEN Atoi(count) ELSE 0,
                      RouterName |-> Trim(fields[i + 13], {Quote}),
                      Duration |-> IF IsNumber(latencyStr) THEN Atoi(latencyStr) ELSE 0],
             err |-> err4]

\* The JSON documents of the model, each one field of a line, and the record
\* json.Unmarshal fills from it; durations are in nanoseconds.
JSONDocs ==
  "{\"RouterName\":\"web@file\",\"OriginStatus\":200,\"Duration\":10000000}" :>
     [EmptyLog EXCEPT !.RouterName = "web@file", !.OriginStatus = 200,
                      !.Duration = 10000000] @@
  "{\"RouterName\":\"api@file\",\"OriginStatus\":404,\"Duration\":300000000}" :>
     [EmptyLog EXCEPT !.RouterName = "api@file", !.OriginStatus = 404,
                      !.Duration = 300000000]

\* parseJSON: json.Valid wants the whole text to be one JSON value.
parseJSON(fields) ==
  IF Len(fields) = 1 /\ fields[1] \in DOMAIN JSONDocs
  THEN [log |-> [JSONDocs[fields[1]] EXCEPT !.Duration = @ \div 1000000], err |-> ""]
  ELSE [log |-> EmptyLog, err |-> "invalid JSON format in log line"]

\* The texts of the numeric fields of an access log line.
StatusTexts == {"200", "abc"}
SizeTexts == {"5", "-"}
CountTexts == {"1", "x"}
DurationTexts == {"10ms", "-"}

\* A line in Traefik's common log format.
AccessLine(status, size, count, duration) ==
  << "10.0.0.1", "-", "-", "[10/Oct/2000:13:55:36", "+0000]",
     Quote \o "GET", "/a", "HTTP/1.1" \o Quote, status, size,
     Quote \o "-" \o Quote, Quote \o "-" \o Quote, count,
     Quote \o "web@file" \o Quote, Quote \o "http://10.0.0.2" \o Quote, duration >>

LogTexts ==
  {AccessLine(st, sz, c, d) :
     st \in StatusTexts, sz \in SizeTexts, c \in CountTexts, d \in DurationTexts}
  \cup {<< f >> : f \in DOMAIN JSONDocs}
  \cup {<< "{" >>, << "time=now", "level=info" >>, << >>}

ParseInputs ==
  [kind : {"router"}, name : RouterNames]
  \cup [kind : {"line"}, jsonLogs : BOOLEAN, fields : LogTexts]

\* Pod names of the streams.
PodNames == {"traefik-1", "traefik-2"}

\* parseRouterName(routerName)
DecodeRouterName ==
  /\ mode = "parse"
  /\ parseIn.kind = "router"
  /\ parseOut.router = << >>
  /\ parseOut' = [parseOut EXCEPT !.router = << parseRouterName(parseIn.name) >>]
  /\ UNCHANGED << parseIn, mxVars, mainVars, objects, targets, configs, queue, edits,
                  clock, gateVars, plVars, retryVars >>

\* The parser ProcessLogs selected, applied to the text of a line.
parse(jsonLogs, fields) == IF jsonLogs THEN parseJSON(fields) ELSE parseLine(fields)

\* The file source hands the line on as it is, and ProcessLogs parses it.
ParseFromFile ==
  /\ mode = "parse"
  /\ parseIn.kind = "line"
  /\ parseOut.file = << >>
  /\ parseOut' = [parseOut EXCEPT !.file = << parse(parseIn.jsonLogs, parseIn.fields) >>]
  /\ UNCHANGED << parseIn, mxVars, mainVars, objects, targets, configs, queue, edits,
                  clock, gateVars, plVars, retryVars >>

\* streamPodLogs sends fmt.Sprintf("[%s] %s", podName, scanner.Text()), and
\* ProcessLogs parses that.
ParseFromK8s(podName) ==
  /\ mode = "parse"
  /\ parseIn.kind = "line"
  /\ parseOut.k8s = << >>
  /\ parseOut' = [parseOut EXCEPT !.k8s =
                    << parse(parseIn.jsonLogs, << "[" \o podName \o "]" >> \o parseIn.fields) >>]
  /\ UNCHANGED << parseIn, mxVars, mainVars, objects, targets, configs, queue, edits,
                  clock, gateVars, plVars, retryVars >>

InitParse ==
  /\ mode = "parse"
  /\ replicas = 0
  /\ InitCommon
  /\ \A p \in Pods : podPhase[p] = "absent"
  /\ InitStore
  /\ targets = {}
  /\ InitAux
  /\ topNPaths = DefaultTopNPaths
  /\ parseIn \in ParseInputs
  /\ retry = NoRetry

NextParse ==
  \/ DecodeRouterName
  \/ ParseFromFile
  \/ \E podName \in PodNames : ParseFromK8s(podName)

SpecParse == InitParse /\ [][NextParse]_vars

\* C32: the decoder gives namespace "mahfil-dev", target name
\* "mahfil-api-server-ingressroute-http" and kind IngressRoute for the router
\* name of the example.
C32_ExampleDecoded ==
  (parseIn.kind = "router" /\ parseIn.name = ExampleRouter /\ parseOut.router # << >>)
    => parseOut.router[1] = [namespace |-> "mahfil-dev",
                             targetName |-> "mahfil-api-server-ingressroute-http",
                             targetKind |-> "IngressRoute"]

\* No part of the router name before the provider is a hash.
NoHashPart(routerName) ==
  LET idx == Index(routerName, "@")
      parts == Split(IF idx = 0 THEN routerName ELSE SubSeq(routerName, 1, idx - 1), "-")
  IN \A i \in 1..Len(parts) : ~isHexString(parts[i])

\* C33: for a router name of the Ingress or the IngressRoute provider with no
\* hash among its parts the decoder gives an empty namespace and an empty
\* target name.
C33_NoHashDecodesEmpty ==
  (/\ parseIn.kind = "router"
   /\ parseOut.router # << >>
   /\ parseOut.router[1].targetKind \in {"Ingress", "IngressRoute"}
   /\ NoHashPart(parseIn.name))
    => /\ parseOut.router[1].namespace = ""
       /\ parseOut.router[1].targetName = ""


\* The error of the first numeric field of an access log line, in the order
\* of the fields, that is no number; "" when all are numbers.
FirstFieldError(fields) ==
  IF ~IsNumber(fields[9]) THEN "invalid status code"
  ELSE IF ~IsNumber(fields[10]) THEN "invalid content size"
  ELSE IF ~IsNumber(fields[13]) THEN "invalid request count"
  ELSE IF ~IsNumber(Trim(fields[16], {"m", "s"})) THEN "invalid duration"
  ELSE ""

\* C35: for a line in the access log format parseLine returns the error of
\* the first numeric field that did not parse, and each numeric field that did
\* parse has its value in the record.
C35_FirstErrorReturned ==
  (/\ parseIn.kind = "line"
   /\ ~parseIn.jsonLogs
   /\ parseOut.file # << >>
   /\ MatchesAt(parseIn.fields, 1))
    => LET f == parseIn.fields
           r == parseOut.file[1]
       IN /\ r.err = FirstFieldError(f)
          /\ IsNumber(f[9]) => r.log.OriginStatus = Atoi(f[9])
          /\ IsNumber(f[10]) => r.log.OriginContentSize = Atoi(f[10])
          /\ IsNumber(f[13]) => r.log.RequestCount = Atoi(f[13])
          /\ IsNumber(Trim(f[16], {"m", "s"})) => r.log.Duration = Atoi(Trim(f[16], {"m", "s"}))

\* C39: a line the selected parser accepts from the file source is accepted
\* with the same fields when a pod emits it through the Kubernetes source.
C39_SourcesInterchangeable ==
  (/\ parseIn.kind = "line"
   /\ parseOut.file # << >>
   /\ parseOut.k8s # << >>
   /\ parseOut.file[1].err = "")
    => parseOut.k8s[1] = parseOut.file[1]


\* ------------------------------------------- streamPodLogsWithRetry alone
\* Times of this part are in seconds; a delay is kept in tenths of a second.
retryRest ==
  << objects, targets, configs, queue, edits, clock, gateVars, mxVars, mainVars,
     parseVars, mode, replicas, sendq, podPhase, podChanges, podLog, podStreams,
     streams, podMutex, ticker, stopCh, wg, sync, closePc, lines, linesClosed,
     consumer, processed, lastProcessedTime, lastSent, tail >>

\* One round of the loop: ctx.Done(), podExists and streamPodLogs.
\* r = "cancelled": the context is done;  r = "gone": podExists answers false;
\* r = "ended": the stream ended without an error, the loop sleeps a second;
\* r = "error": streamPodLogs returned an error;  r = "notfound": an error
\* whose text contains "not found". No error streamPodLogs returns is one
\* wait.Interrupted recognises.
RetryTop(r) ==
  /\ mode = "retry"
  /\ retry.pc = "top"
  /\ retry' = [retry EXCEPT !.pc = CASE r \in {"cancelled", "gone"} -> "done"
                                     [] r = "ended" -> "top"
                                     [] r = "notfound" -> "resync"
                                     [] OTHER -> "backoff"]
  /\ UNCHANGED << lastPodSync, retryRest >>

\* kls.forcePodResync()
RetryResync ==
  /\ mode = "retry"
  /\ retry.pc = "resync"
  /\ lastPodSync' = ZeroTime
  /\ retry' = [retry EXCEPT !.pc = "backoff"]
  /\ UNCHANGED retryRest

\* wait.Backoff.Step(): the fields it leaves in the backoff.
StepBackoff(b) ==
  IF b.Steps < 1 THEN b
  ELSE IF b.Duration * 2 > maxBackoff
       THEN [b EXCEPT !.Steps = 0, !.Duration = maxBackoff]
       ELSE [b EXCEPT !.Steps = b.Steps - 1, !.Duration = b.Duration * 2]

\* delay := backoff.Step(); time.Sleep(delay); continue. The jitter adds up
\* to a tenth of the duration; jit is 0 or 1 for none or all of it.
RetryBackoff(jit) ==
  /\ mode = "retry"
  /\ retry.pc = "backoff"
  /\ retry.attempts < MaxAttempts
  /\ LET b == StepBackoff(retry)
     IN retry' = [b EXCEPT !.pc = "top",
                           !.attempts = retry.attempts + 1,
                           !.delay = 10 * retry.Duration + jit * retry.Duration]
  /\ UNCHANGED << lastPodSync, retryRest >>

\* A streamer just started by ensurePodStream, after a sync.
InitRetry ==
  /\ mode = "retry"
  /\ replicas = 0
  /\ podPhase = [p \in Pods |-> "absent"]
  /\ podChanges = 0
  /\ podLog = [p \in Pods |-> 0]
  /\ podStreams = [p \in Pods |-> 0]
  /\ streams = [s \in StreamIds |-> NoStream]
  /\ podMutex = "free"
  /\ lastPodSync = Now
  /\ ticker = FALSE
  /\ stopCh = FALSE
  /\ wg = 0
  /\ sync = [c \in Callers |-> [pc |-> "init", listed |-> {}, todo |-> {}]]
  /\ closePc = "idle"
  /\ lines = << >>
  /\ sendq = << >>
  /\ linesClosed = FALSE
  /\ consumer = "running"
  /\ processed = 0
  /\ lastProcessedTime = 0
  /\ lastSent = [s \in Pods \cup {FileSrc} |-> 0]
  /\ tail = [pc |-> "recv", hand |-> LogLine(FileSrc, 0, FALSE), count |-> 0,
             stopped |-> FALSE, errs |-> {}]
  /\ InitStore
  /\ targets = {}
  /\ InitAux
  /\ parseIn = NoParseIn
  /\ topNPaths = DefaultTopNPaths
  /\ retry = [pc |-> "top", attempts |-> 0, Steps |-> maxRetries,
              Duration |-> initialBackoff, delay |-> 0]

NextRetry ==
  \/ \E r \in {"cancelled", "gone", "ended", "error", "notfound"} : RetryTop(r)
  \/ RetryResync
  \/ \E jit \in {0, 1} : RetryBackoff(jit)

SpecRetry == InitRetry /\ [][NextRetry]_vars

\* 2^n
RECURSIVE Pow2(_)
Pow2(n) == IF n = 0 THEN 1 ELSE 2 * Pow2(n - 1)

\* The delay before attempt n fails over to the next: initialBackoff doubled
\* n - 1 times, at most maxBackoff.
ExpectedDelay(n) ==
  IF initialBackoff * Pow2(n - 1) > maxBackoff THEN maxBackoff
  ELSE initialBackoff * Pow2(n - 1)

\* C34: a streamer whose stream keeps failing makes at most maxRetries
\* attempts, and the delay after its n-th failure is initialBackoff doubled
\* n - 1 times, at most maxBackoff, plus a jitter of at most a tenth.
C34_RetriesBounded ==
  /\ retry.attempts <= maxRetries
  /\ retry.attempts > 0 =>
       /\ retry.delay >= 10 * ExpectedDelay(retry.attempts)
       /\ retry.delay <= 11 * ExpectedDelay(retry.attempts)


\* The streamer goroutines of pod p that have not exited and can still put
\* a line on the channel: those not cancelled, and the cancelled ones that
\* are past the select on ctx.Done() with a line in hand.
LiveStreamers(p) ==
  {s \in StreamIds :
     /\ Live(s)
     /\ streams[s].pod = p
     /\ ~streams[s].cancelled \/ streams[s].pc \in {"send", "blocked"}}

\* C36: at any time at most one streamer goroutine of a pod is alive and
\* able to emit a line.
C36_OneStreamerPerPod ==
  \A p \in Pods : Cardinality(LiveStreamers(p)) <= 1

\* The Ready condition of the status stands at True.
ReadyTrue(status) ==
  \E i \in 1..Len(status.conditions) :
    status.conditions[i].type = "Ready" /\ status.conditions[i].status = "True"

\* C37: a reconcile whose status update succeeds leaves the Ready condition
\* at True exactly when it leaves the phase Active.
C37_ReadyIffActive ==
  [][\A o \in Objects :
       (Reconcile(o, FALSE) /\ objects[o].exists)
         => (ReadyTrue(objects'[o].status) <=> objects'[o].status.phase = "Active")]_vars

\* Object q is enabled and stands Active on its present spec.
StaysActive(q) ==
  /\ objects[q].exists
  /\ objects[q].spec.enabled
  /\ objects[q].status.phase = "Active"
  /\ objects[q].status.observedGeneration = objects[q].generation

\* The store cfgs holds, under the key of object q, the configuration built
\* from the spec of q (the time of the build apart).
HoldsOwnConfig(cfgs, q) ==
  LET sp == objects[q].spec
      c == cfgs[KeyOf(q)]
  IN /\ c.Enabled
     /\ c.Key = KeyOf(q)
     /\ c.TargetName = sp.tname
     /\ c.TargetKind = sp.kind
     /\ c.WhitelistRegex = sp.whitelist
     /\ c.IgnoredRegex = sp.ignored
     /\ c.URLPatterns = SelectSeq(sp.urlPatterns, Compiles)

\* C38: a reconcile of one object leaves in the store the configuration of
\* every other object that is enabled and Active and whose configuration the
\* store held before.
C38_OtherConfigKept ==
  [][\A o \in Objects, q \in Objects :
       (/\ o # q
        /\ \E e \in BOOLEAN : Reconcile(o, e)
        /\ StaysActive(q)
        /\ HoldsOwnConfig(configs, q))
         => HoldsOwnConfig(configs', q)]_vars

\* C40: the time stamp that follows a sync answered from the cache never
\* overwrites a zeroed lastPodSync (a forced resync).
C40_ForcedResyncKept ==
  [][watchPodsStamp => ~lastPodSync.zero]_vars

=============================================================================
